---- MODULE Spec2Model ----
(***************************************************************************)
(* A model of the resilient invocation and response-recovery layer of the  *)
(* banking-ai repository (src/config.py), of the five-phase actor cycle    *)
(* (src/models/base_agent.py) and of the coordinator                       *)
(* (src/agents/orchestrator.py).                                           *)
(*                                                                         *)
(* Time is counted in half seconds, so that every delay of the code is an  *)
(* integer: 1.5 s = 3, 0.5 s = 1, 3.0 s = 6.                               *)
(*                                                                         *)
(* Text is a sequence of characters.  A character is a one-character       *)
(* string, or a longer string standing for a run of ordinary characters    *)
(* (letters of a word, digits of a number) none of which is a bracket, a   *)
(* quote, a comma, a colon, a backslash, white space or a control          *)
(* character.                                                              *)
(***************************************************************************)
EXTENDS Integers, Sequences, FiniteSets, TLC

VARIABLES
    \* ---- one invocation of a retry wrapper (src/config.py:21-79)
    wrapper,        \* which wrapper runs
    max_retries,    \* its max_retries argument
    base_delay,     \* its base_delay argument (bedrock: the literal 3.0)
    attempt,        \* the loop variable
    rw_pc,          \* position of the coroutine inside the loop body
    call_log,       \* outcome of every remote call made so far, in order
    sleep_log,      \* every asyncio.sleep made so far, in order
    rw_result,      \* what the invocation handed to its caller
    \* ---- one call of safe_json_parse (src/config.py:155-184)
    json_str,       \* its json_str argument
    fallback_dict,  \* its fallback_dict argument (None is the empty mapping)
    embedded,       \* the JSON object the text was written around, if any
    parse_pc,       \* "call" before the call, "done" after it
    parsed,         \* what the call handed to its caller
    \* ---- the actors (src/models/base_agent.py), one entry per actor
    script,             \* how the model and the step handlers behave in this run
    handler_class,      \* the class whose _execute_step_autonomously runs
    goals,              \* self.goals
    memory_bank,        \* self.memory_bank
    current_plan,       \* self.current_plan
    reflection_history, \* self.reflection_history
    negotiation_history,\* self.negotiation_history
    adaptation_count,   \* self.adaptation_count
    agent_pc,           \* position of autonomous_process
    local,              \* local variables of autonomous_process
    process_result,     \* what autonomous_process returned last
    cycles,             \* number of calls of autonomous_process so far
    \* ---- the coordinator (src/agents/orchestrator.py)
    coord_pc,            \* position of autonomous_coordination
    coord_local,         \* local variables of autonomous_coordination
    coordination_result, \* what autonomous_coordination returned last
    applications,        \* number of calls of autonomous_coordination so far
    \* ---- one call of autonomous_segmentation (src/utils/customer_segmentation.py)
    pincode,         \* its pincode argument, a string of digits (None is '')
    income,          \* its income argument
    bedrock_runtime, \* whether self.bedrock_runtime is a client
    ai_outcome,      \* what the invocation of the model gives
    segment_pc,      \* "call" before the call, "done" after it
    segmentation,    \* what the call handed to its caller
    \* ---- two calls of _analyze_situation_autonomously (src/models/base_agent.py:56-91)
    input_data,      \* the input_data argument of each call, its items in order
    analysis_prompt, \* the analysis_prompt each call sent to the model
    prompt_pc        \* of each call, "call" before it and "sent" after it

retry_vars == <<wrapper, max_retries, base_delay, attempt, rw_pc, call_log,
                sleep_log, rw_result>>

parse_vars == <<json_str, fallback_dict, embedded, parse_pc, parsed>>

agent_vars == <<script, handler_class, goals, memory_bank, current_plan,
                reflection_history, negotiation_history, adaptation_count,
                agent_pc, local, process_result, cycles>>

coord_vars == <<coord_pc, coord_local, coordination_result, applications>>

segment_vars == <<pincode, income, bedrock_runtime, ai_outcome, segment_pc,
                  segmentation>>

prompt_vars == <<input_data, analysis_prompt, prompt_pc>>

vars == <<retry_vars, parse_vars, agent_vars, coord_vars, segment_vars, prompt_vars>>

(***************************************************************************)
(* Bounds of the model.                                                    *)
(***************************************************************************)
MaxRetriesBound == 3      \* max_retries ranges over 0..MaxRetriesBound
MaxTextLen == 4           \* every text of at most this many characters is parsed
MaxValueLen == 3          \* length of the string value inside a wrapped object
MaxSteadyCycles == 27     \* cycles of one actor in a steady run
MaxFreeCycles == 1        \* cycles of one actor in a free run
MaxApplications == 2      \* calls of autonomous_coordination

(***************************************************************************)
(* Helpers on sequences.                                                   *)
(***************************************************************************)
RECURSIVE SumSeq(_)
SumSeq(s) == IF s = <<>> THEN 0 ELSE Head(s) + SumSeq(Tail(s))

Contains(s, x) == \E i \in 1..Len(s) : s[i] = x

\* The element of a set of one element.  In The({e(x) : x \in {v}}) the
\* value v is computed once, however often e uses x.
The(S) == CHOOSE x \in S : TRUE

(***************************************************************************)
(* 1. The retry wrappers.                                                  *)
(***************************************************************************)
Wrappers == {"rate_limited_api_call", "bedrock_api_call_with_retry"}

\* The result of a remote call that succeeded.
RESPONSE == <<"response">>

\* What a remote call gives: the response, or an error whose text str(e) is
\* a sequence of words.
CallOutcomes ==
    { RESPONSE,
      <<"An error occurred (", "ThrottlingException", ") when calling InvokeModel">>,
      <<"TooManyRequestsException", ": slow down">>,
      <<"An error occurred (", "AccessDeniedException", ") when calling InvokeModel">>,
      <<"ValidationException">> }

\* "ThrottlingException" in str(e) or "TooManyRequestsException" in str(e)
IsThrottlingMutant(e) ==
    Contains(e, "ThrottlingException") \/ Contains(e, "TooManyRequestsException")
        \/ Contains(e, "AccessDeniedException")

IsThrottling(e) ==
    Contains(e, "ThrottlingException") \/ Contains(e, "TooManyRequestsException")

\* if attempt < max_retries
AttemptsRemainMutant(a, r) == a <= r

\* A bug that retries for ever.
AttemptsRemainAlways(a, r) == TRUE

AttemptsRemain(a, r) == a < r

\* asyncio.sleep(1.5) after a successful call in rate_limited_api_call
POST_CALL_DELAY == 3

\* delay = 1.5 + (attempt * 0.5)
PACING_BASE == 3
PACING_STEP == 1
PacingDelayMutant(a) == PACING_BASE

PacingDelay(a) == PACING_BASE + a * PACING_STEP

\* the literal 3.0 of backoff_delay = 3.0 * (2 ** attempt)
BEDROCK_BASE_DELAY == 6

\* default of the base_delay parameter (2.0) and other values a caller passes
DEFAULT_BASE_DELAY == 4
BaseDelays == {2, DEFAULT_BASE_DELAY}

\* delay = base_delay * (2 ** attempt)
BackoffDelayMutant(b, a) == b * (a + 1)

BackoffDelay(b, a) == b * (2 ^ a)

RetryStart ==
    /\ wrapper \in Wrappers
    /\ max_retries \in 0..MaxRetriesBound
    /\ base_delay \in (IF wrapper = "bedrock_api_call_with_retry"
                          THEN {BEDROCK_BASE_DELAY} ELSE BaseDelays)
    /\ attempt = 0
    /\ rw_pc = IF wrapper = "bedrock_api_call_with_retry" THEN "pace" ELSE "call"
    /\ call_log = <<>>
    /\ sleep_log = <<>>
    /\ rw_result = [kind |-> "running", value |-> <<>>]

Sleep(kind, dur) ==
    sleep_log' = Append(sleep_log,
                        [kind |-> kind, dur |-> dur, attempt |-> attempt,
                         calls |-> Len(call_log)])

\* bedrock_api_call_with_retry: await asyncio.sleep(delay) before the call
BedrockPace ==
    /\ wrapper = "bedrock_api_call_with_retry"
    /\ rw_pc = "pace"
    /\ Sleep("pace", PacingDelay(attempt))
    /\ rw_pc' = "call"
    /\ UNCHANGED <<wrapper, max_retries, base_delay, attempt, call_log, rw_result>>

\* What the except clause does with the error e of the current attempt.
OnError(e) ==
    IF IsThrottling(e) /\ AttemptsRemain(attempt, max_retries)
    THEN /\ rw_pc' = "backoff"
         /\ UNCHANGED rw_result
    ELSE /\ rw_pc' = "raised"
         /\ rw_result' = [kind |-> "raised", value |-> e]

\* aws_client.invoke_model(...) and the return / except that follows it
BedrockInvoke ==
    /\ wrapper = "bedrock_api_call_with_retry"
    /\ rw_pc = "call"
    /\ \E o \in CallOutcomes :
         /\ call_log' = Append(call_log, o)
         /\ IF o = RESPONSE
            THEN /\ rw_pc' = "returned"
                 /\ rw_result' = [kind |-> "returned", value |-> o]
            ELSE OnError(o)
    /\ UNCHANGED <<wrapper, max_retries, base_delay, attempt, sleep_log>>

\* api_call_func(*args, **kwargs) and the except that follows it
RateLimitedInvoke ==
    /\ wrapper = "rate_limited_api_call"
    /\ rw_pc = "call"
    /\ \E o \in CallOutcomes :
         /\ call_log' = Append(call_log, o)
         /\ IF o = RESPONSE
            THEN /\ rw_pc' = "post"
                 /\ UNCHANGED rw_result
            ELSE OnError(o)
    /\ UNCHANGED <<wrapper, max_retries, base_delay, attempt, sleep_log>>

\* rate_limited_api_call: await asyncio.sleep(1.5); return result
RateLimitedPostSleep ==
    /\ wrapper = "rate_limited_api_call"
    /\ rw_pc = "post"
    /\ Sleep("post", POST_CALL_DELAY)
    /\ rw_pc' = "returned"
    /\ rw_result' = [kind |-> "returned", value |-> call_log[Len(call_log)]]
    /\ UNCHANGED <<wrapper, max_retries, base_delay, attempt, call_log>>

\* await asyncio.sleep(backoff); continue
Backoff ==
    /\ rw_pc = "backoff"
    /\ Sleep("backoff", BackoffDelay(base_delay, attempt))
    /\ attempt' = attempt + 1
    /\ rw_pc' = IF wrapper = "bedrock_api_call_with_retry" THEN "pace" ELSE "call"
    /\ UNCHANGED <<wrapper, max_retries, base_delay, call_log, rw_result>>

(***************************************************************************)
(* 2. Structured response recovery.                                        *)
(***************************************************************************)
\* JSON white space, which is also what the regular expression \s matches.
WHITESPACE == {" ", "\n"}
\* The characters of [\x00-\x1f\x7f-\x9f].
CONTROL == {"\n"}
\* Numbers: runs of digits, and the decimal fractions of the texts below.
DIGITS == {"0", "1", "0.1", "0.2", "0.3", "0.4", "0.5", "0.6", "0.85", "0.9", "1.5"}
\* The literals of JSON.
LITERALS == {"true", "false", "null"}

\* The values json.loads builds.  An object is the set of its members (a
\* later member with the same key replaces an earlier one, and the order of
\* the members does not matter to ==), an array the sequence of its elements.
StrVal(s) == [t |-> "str", s |-> s, kids |-> <<>>, members |-> {}]
NumVal(s) == [t |-> "num", s |-> s, kids |-> <<>>, members |-> {}]
LitVal(w) == [t |-> "lit", s |-> <<w>>, kids |-> <<>>, members |-> {}]
ArrVal(kids) == [t |-> "arr", s |-> <<>>, kids |-> kids, members |-> {}]
ObjVal(members) == [t |-> "obj", s |-> <<>>, kids |-> <<>>, members |-> members]

Fail == [ok |-> FALSE, val |-> StrVal(<<>>), pos |-> 0]
Ok(v, p) == [ok |-> TRUE, val |-> v, pos |-> p]

RECURSIVE SkipWs(_, _)
RECURSIVE ParseString(_, _, _)
RECURSIVE ParseNumber(_, _, _)
RECURSIVE ParseValue(_, _)
RECURSIVE ParseMembers(_, _, _)
RECURSIVE ParseElements(_, _, _)
RECURSIVE AfterMember(_, _, _, _)

\* The first position from i on that holds no white space.
SkipWs(s, i) ==
    IF i <= Len(s) /\ s[i] \in WHITESPACE THEN SkipWs(s, i + 1) ELSE i

\* A string whose opening quote is just before position i.
ParseString(s, i, acc) ==
    IF i > Len(s) THEN Fail
    ELSE IF s[i] = "\"" THEN Ok(StrVal(acc), i + 1)
    ELSE IF s[i] = "\\"
         THEN IF i + 1 <= Len(s) /\ s[i + 1] \in {"\"", "\\"}
              THEN ParseString(s, i + 2, Append(acc, s[i + 1]))
              ELSE Fail
    ELSE IF s[i] \in CONTROL THEN Fail
    ELSE ParseString(s, i + 1, Append(acc, s[i]))

ParseNumber(s, i, acc) ==
    IF i <= Len(s) /\ s[i] \in DIGITS
    THEN ParseNumber(s, i + 1, Append(acc, s[i]))
    ELSE Ok(NumVal(acc), i)

ParseValue(s, i) ==
    IF i > Len(s) THEN Fail
    ELSE IF s[i] = "\"" THEN ParseString(s, i + 1, <<>>)
    ELSE IF s[i] = "{"
         THEN The({ IF j <= Len(s) /\ s[j] = "}" THEN Ok(ObjVal({}), j + 1)
                    ELSE ParseMembers(s, j, {}) : j \in {SkipWs(s, i + 1)} })
    ELSE IF s[i] = "["
         THEN The({ IF j <= Len(s) /\ s[j] = "]" THEN Ok(ArrVal(<<>>), j + 1)
                    ELSE ParseElements(s, j, <<>>) : j \in {SkipWs(s, i + 1)} })
    ELSE IF s[i] \in DIGITS THEN ParseNumber(s, i, <<>>)
    ELSE IF s[i] \in LITERALS THEN Ok(LitVal(s[i]), i + 1)
    ELSE Fail

\* What follows the value v of the member with key k: the end of the
\* object, or a comma and the next member.
AfterMember(s, k, v, acc) ==
    The({ The({ IF d > Len(s) THEN Fail
                ELSE IF s[d] = "}" THEN Ok(ObjVal(acc2), d + 1)
                ELSE IF s[d] = ","
                     THEN The({ ParseMembers(s, n, acc2) : n \in {SkipWs(s, d + 1)} })
                ELSE Fail
                : d \in {SkipWs(s, v.pos)} })
          : acc2 \in {{m \in acc : m.k # k.val.s} \cup {[k |-> k.val.s, v |-> v.val]}} })

\* The members of an object from the opening quote of a key at position i.
ParseMembers(s, i, acc) ==
    IF i > Len(s) \/ s[i] # "\"" THEN Fail
    ELSE The({ IF ~k.ok THEN Fail
               ELSE The({ IF c > Len(s) \/ s[c] # ":" THEN Fail
                          ELSE The({ IF ~v.ok THEN Fail ELSE AfterMember(s, k, v, acc)
                                     : v \in {ParseValue(s, SkipWs(s, c + 1))} })
                          : c \in {SkipWs(s, k.pos)} })
               : k \in {ParseString(s, i + 1, <<>>)} })

\* The elements of an array from the first character of an element at i.
ParseElements(s, i, acc) ==
    The({ IF ~v.ok THEN Fail
          ELSE The({ IF d > Len(s) THEN Fail
                     ELSE IF s[d] = "]" THEN Ok(ArrVal(Append(acc, v.val)), d + 1)
                     ELSE IF s[d] = ","
                          THEN The({ ParseElements(s, n, acc2)
                                     : n \in {SkipWs(s, d + 1)},
                                       acc2 \in {Append(acc, v.val)} })
                     ELSE Fail
                     : d \in {SkipWs(s, v.pos)} })
          : v \in {ParseValue(s, i)} })

\* json.loads(s): the value, or json.JSONDecodeError (also when anything but
\* white space follows the value).
json_loads(s) ==
    The({ The({ IF r.ok /\ SkipWs(text, r.pos) = Len(text) + 1
                THEN [ok |-> TRUE, val |-> r.val, err |-> "none"]
                ELSE [ok |-> FALSE, val |-> StrVal(<<>>), err |-> "JSONDecodeError"]
                : r \in {ParseValue(text, SkipWs(text, 1))} })
          : text \in {s} })

\* re.sub(r'[\x00-\x1f\x7f-\x9f]', ' ', json_str)
ReplaceControl(s) == [i \in 1..Len(s) |-> IF s[i] \in CONTROL THEN " " ELSE s[i]]

\* re.sub(r'\s+', ' ', cleaned)
RECURSIVE CollapseWs(_, _)
CollapseWs(s, i) ==
    IF i > Len(s) THEN <<>>
    ELSE IF s[i] \in WHITESPACE THEN <<" ">> \o CollapseWs(s, SkipWs(s, i))
    ELSE <<s[i]>> \o CollapseWs(s, i + 1)

\* re.sub(r',\s*}', '}', cleaned) and re.sub(r',\s*]', ']', cleaned)
RECURSIVE RemoveTrailingComma(_, _, _)
RemoveTrailingComma(s, i, closer) ==
    IF i > Len(s) THEN <<>>
    ELSE LET j == SkipWs(s, i + 1)
         IN  IF s[i] = "," /\ j <= Len(s) /\ s[j] = closer
             THEN <<closer>> \o RemoveTrailingComma(s, j + 1, closer)
             ELSE <<s[i]>> \o RemoveTrailingComma(s, i + 1, closer)

\* re.sub(r'}\s*{', '},{', cleaned)
RECURSIVE InsertMissingComma(_, _)
InsertMissingComma(s, i) ==
    IF i > Len(s) THEN <<>>
    ELSE LET j == SkipWs(s, i + 1)
         IN  IF s[i] = "}" /\ j <= Len(s) /\ s[j] = "{"
             THEN <<"}", ",", "{">> \o InsertMissingComma(s, j + 1)
             ELSE <<s[i]>> \o InsertMissingComma(s, i + 1)

\* re.sub(r'(?<!\\)"([^"]*)"(?=\s*:)', r'"\1"', cleaned): every match is
\* replaced by the text it matched.
FixKeyQuotes(s) == s

\* cleaned.strip()
RECURSIVE LastNonWs(_, _)
LastNonWs(s, i) ==
    IF i >= 1 /\ s[i] \in WHITESPACE THEN LastNonWs(s, i - 1) ELSE i

Strip(s) == SubSeq(s, SkipWs(s, 1), LastNonWs(s, Len(s)))

\* Position of the first character of s that is in cs, 0 if there is none
\* (the code's -1).
RECURSIVE FindFirst(_, _, _)
FindFirst(s, cs, i) ==
    IF i > Len(s) THEN 0
    ELSE IF s[i] \in cs THEN i
    ELSE FindFirst(s, cs, i + 1)

\* Position of the last character of s that is in cs, 0 if there is none.
RECURSIVE FindLast(_, _, _)
FindLast(s, cs, i) ==
    IF i < 1 THEN 0
    ELSE IF s[i] \in cs THEN i
    ELSE FindLast(s, cs, i - 1)

\* Inside a quoted string a bracket does not change bracket_count.
CountsBracketMutant(quote_open) == TRUE

CountsBracket(quote_open) == ~quote_open

\* The loop over range(json_start, len(cleaned)): json_end, 0 if the bracket
\* count never returns to zero.
RECURSIVE ScanEnd(_, _, _, _, _, _, _)
ScanEnd(cleaned, i, start_char, end_char, bracket_count, quote_open, escape_next) ==
    IF i > Len(cleaned) THEN 0
    ELSE IF escape_next
         THEN ScanEnd(cleaned, i + 1, start_char, end_char, bracket_count, quote_open, FALSE)
    ELSE IF cleaned[i] = "\\"
         THEN ScanEnd(cleaned, i + 1, start_char, end_char, bracket_count, quote_open, TRUE)
    ELSE IF cleaned[i] = "\""
         THEN ScanEnd(cleaned, i + 1, start_char, end_char, bracket_count, ~quote_open, FALSE)
    ELSE IF CountsBracket(quote_open) /\ cleaned[i] = start_char
         THEN ScanEnd(cleaned, i + 1, start_char, end_char, bracket_count + 1, quote_open, FALSE)
    ELSE IF CountsBracket(quote_open) /\ cleaned[i] = end_char
         THEN IF bracket_count - 1 = 0 THEN i
              ELSE ScanEnd(cleaned, i + 1, start_char, end_char, bracket_count - 1, quote_open, FALSE)
    ELSE ScanEnd(cleaned, i + 1, start_char, end_char, bracket_count, quote_open, FALSE)

EMPTY_OBJECT_TEXT == <<"{", "}">>

\* The scan for the end of the first object or array of cleaned, and the
\* final fallback.
ExtractJson(cleaned) ==
    The({ The({ The({ IF sliced = <<>> \/ sliced[1] \notin {"{", "["}
                      THEN EMPTY_OBJECT_TEXT
                      ELSE sliced
                      : sliced \in {IF json_start # 0 /\ json_end > json_start
                                    THEN SubSeq(cleaned, json_start, json_end)
                                    ELSE cleaned} })
                : json_end \in {IF json_start = 0 THEN 0
                                ELSE ScanEnd(cleaned, json_start, cleaned[json_start],
                                             IF cleaned[json_start] = "{" THEN "}" ELSE "]",
                                             0, FALSE, FALSE)} })
          : json_start \in {FindFirst(cleaned, {"{", "["}, 1)} })

clean_json_string(raw) ==
    IF raw = <<>> THEN EMPTY_OBJECT_TEXT
    ELSE The({ The({ The({ The({ The({ ExtractJson(cleaned)
                                       : cleaned \in {Strip(FixKeyQuotes(c4))} })
                                 : c4 \in {InsertMissingComma(c3, 1)} })
                           : c3 \in {RemoveTrailingComma(c2, 1, "]")} })
                     : c2 \in {RemoveTrailingComma(c1, 1, "}")} })
               : c1 \in {CollapseWs(ReplaceControl(raw), 1)} })

\* What a call hands to its caller: a value, with the attempt that produced
\* it, or an exception.
Returned(v, path) == [raised |-> FALSE, err |-> "none", value |-> v, path |-> path]
Raised(e) == [raised |-> TRUE, err |-> e, value |-> StrVal(<<>>), path |-> "none"]
NotCalled == [raised |-> FALSE, err |-> "none", value |-> StrVal(<<>>), path |-> "none"]

\* except json.JSONDecodeError
CatchesJSONDecodeErrorMutant(err) == err = "KeyError"

CatchesJSONDecodeError(err) == err = "JSONDecodeError"

\* The third attempt: the text from the first '{' to the last '}' of the
\* original string, cleaned and parsed; any exception is swallowed.
ThirdAttempt(raw) ==
    The({ IF start_idx # 0 /\ end_idx # 0
          THEN json_loads(clean_json_string(SubSeq(raw, start_idx, end_idx)))
          ELSE [ok |-> FALSE, val |-> StrVal(<<>>), err |-> "none"]
          : start_idx \in {FindFirst(raw, {"{"}, 1)},
            end_idx \in {FindLast(raw, {"}"}, Len(raw))} })

\* A bug that repairs the text before the first parse.
safe_json_parse_Mutant(raw, fallback) ==
    The({ IF second.ok THEN Returned(second.val, "direct")
          ELSE Returned(fallback, "fallback")
          : second \in {json_loads(clean_json_string(raw))} })

\* A bug that answers the empty mapping when every attempt has failed.
ParseRepairedMutant(raw, fallback) ==
    The({ IF second.ok THEN Returned(second.val, "cleaned")
          ELSE IF ~CatchesJSONDecodeError(second.err) THEN Raised(second.err)
          ELSE The({ IF third.ok THEN Returned(third.val, "extracted")
                     ELSE Returned(ObjVal({}), "fallback")
                     : third \in {ThirdAttempt(raw)} })
          : second \in {json_loads(clean_json_string(raw))} })

\* The second and third attempts, made after the first raised
\* json.JSONDecodeError.
ParseRepaired(raw, fallback) ==
    The({ IF second.ok THEN Returned(second.val, "cleaned")
          ELSE IF ~CatchesJSONDecodeError(second.err) THEN Raised(second.err)
          ELSE The({ IF third.ok THEN Returned(third.val, "extracted")
                     ELSE Returned(fallback, "fallback")
                     : third \in {ThirdAttempt(raw)} })
          : second \in {json_loads(clean_json_string(raw))} })

safe_json_parse(raw, fallback) ==
    The({ IF first.ok THEN Returned(first.val, "direct")
          ELSE IF ~CatchesJSONDecodeError(first.err) THEN Raised(first.err)
          ELSE ParseRepaired(raw, fallback)
          : first \in {json_loads(raw)} })

\* ---- the texts and fallbacks the call is made with
TextsUpTo(chars, n) == UNION {[1..k -> chars] : k \in 0..n}

\* A mapping a caller passes as fallback, and the empty mapping of
\* fallback_dict = None.
Fallbacks ==
    { ObjVal({}),
      ObjVal({[k |-> <<"final_status">>, v |-> StrVal(<<"manual_review">>)]}) }

\* Prose without brackets around the object.
Proses ==
    { <<>>,
      <<"Here is the result", ":", " ">>,
      <<" ", "Thanks!">>,
      <<"\n", "say", " ", "\"", "ok", ",", " ">> }

\* {"a": 1, "b": "<value>"}, the value any string of brackets and letters.
WrappedObject(value) ==
    <<"{", "\"", "a", "\"", ":", " ", "1", ",", " ", "\"", "b", "\"", ":", " ", "\"">>
        \o value \o <<"\"", "}">>

\* Responses of the kinds a model gives: truncated, with trailing commas,
\* with two objects, with an array, with escapes.
Corpus ==
    { <<"{", "\"", "a", "\"", ":", "1">>,
      <<"{", "\"", "a", "\"", ":", "[", "1", ",", "]", ",", "}">>,
      <<"x", " ", "{", "\"", "a", "\"", ":", "1", "}", "{", "\"", "b", "\"", ":", "1", "}">>,
      <<"[", "1", ",", "1", "]", " ", "{", "\"", "a", "\"", ":", "1", "}">>,
      <<"{", "\"", "a", "\"", ":", "\"", "\\", "\"", "}", "\"", "}", " ", "x">>,
      <<"{", "\"", "a", "\"", ":", "\"", "x", "\n", "y", "\"", "}">>,
      <<"x", "}", " ", "{", "\"", "a", "\"", ":", "true", "}", " ", "{">>,
      <<"{", "\"", "a", "\"", ":", "1", ",", "\"", "a", "\"", ":", "null", "}">>,
      <<"{", "\"", "a", "\"", ":", "\n", "}", " ", "x">> }

ParseStart ==
    /\ \/ /\ json_str \in TextsUpTo({"{", "}", "[", "]", "\"", ":", ",", "\\", " ", "\n", "a", "1"},
                                 MaxTextLen) \cup Corpus
          /\ embedded = <<>>
       \/ \E before \in Proses, after \in Proses,
             value \in TextsUpTo({"{", "}", "x", "y"}, MaxValueLen) :
             /\ embedded = WrappedObject(value)
             /\ json_str = before \o embedded \o after
    /\ fallback_dict \in Fallbacks
    /\ parse_pc = "call"
    /\ parsed = NotCalled

SafeJsonParse ==
    /\ parse_pc = "call"
    /\ parsed' = safe_json_parse(json_str, fallback_dict)
    /\ parse_pc' = "done"
    /\ UNCHANGED <<json_str, fallback_dict, embedded>>

(***************************************************************************)
(* 3. The values of the Python program.                                    *)
(***************************************************************************)
\* The result of evaluating an expression: a value, or the exception raised.
Val(v) == [ok |-> TRUE, val |-> v, err |-> "none"]
Err(e) == [ok |-> FALSE, val |-> StrVal(<<>>), err |-> e]

\* A string of one word, None.
Str(w) == StrVal(<<w>>)
None == LitVal("null")

\* str(uuid.uuid4())[:8]: an identifier no other call returns.
Uuid(owner, n) == [t |-> "uuid", s |-> <<owner, ToString(n)>>, kids |-> <<>>, members |-> {}]

HasKey(d, key) == \E m \in d.members : m.k = <<key>>
Lookup(d, key) == (CHOOSE m \in d.members : m.k = <<key>>).v

\* d.get(key, default)
PyGet(d, key, default) ==
    IF d.t # "obj" THEN Err("AttributeError")
    ELSE IF HasKey(d, key) THEN Val(Lookup(d, key))
    ELSE Val(default)

\* d[key] for a string key
PyItem(d, key) ==
    IF d.t = "obj" THEN (IF HasKey(d, key) THEN Val(Lookup(d, key)) ELSE Err("KeyError"))
    ELSE Err("TypeError")

\* x[0]
PyFirst(x) ==
    IF x.t = "arr" THEN (IF x.kids # <<>> THEN Val(x.kids[1]) ELSE Err("IndexError"))
    ELSE IF x.t = "str" THEN (IF x.s # <<>> THEN Val(Str(x.s[1])) ELSE Err("IndexError"))
    ELSE IF x.t = "obj" THEN Err("KeyError")
    ELSE Err("TypeError")

\* bool(x)
Truthy(x) ==
    CASE x.t = "lit" -> x.s = <<"true">>
      [] x.t = "num" -> x.s # <<"0">>
      [] x.t = "str" -> x.s # <<>>
      [] x.t = "arr" -> x.kids # <<>>
      [] x.t = "obj" -> x.members # {}
      [] OTHER -> TRUE

\* The keys of a mapping, as strings.
RECURSIVE KeysOf(_)
KeysOf(members) ==
    IF members = {} THEN <<>>
    ELSE LET m == CHOOSE x \in members : TRUE
         IN  <<StrVal(m.k)>> \o KeysOf(members \ {m})

\* for item in x: the items (of a mapping, its keys), or TypeError
Iterate(x) ==
    IF x.t = "arr" THEN Val(x.kids)
    ELSE IF x.t = "str" THEN Val([i \in 1..Len(x.s) |-> Str(x.s[i])])
    ELSE IF x.t = "obj" THEN Val(KeysOf(x.members))
    ELSE Err("TypeError")

\* str.lower() of a word
Lower(w) ==
    LET lower == [HIGH |-> "high", High |-> "high", PRIORITY |-> "priority",
                  Priority |-> "priority", Raise |-> "raise"]
    IN  IF w \in DOMAIN lower THEN lower[w] ELSE w

\* word in x.lower(), for a string x
Mentions(x, word) == \E i \in 1..Len(x.s) : Lower(x.s[i]) = word

(***************************************************************************)
(* Texts of the model's answers and the mappings the code writes out.     *)
(***************************************************************************)
\* The texts the model answers with: ai_response.
MODEL_TEXT ==
    [
      \* a well-formed situation analysis
      ANALYSIS_OK |->
         <<"{", "\"", "situation_type", "\"", ":", " ", "\"", "kyc", "\"", ",",
         " ", "\"", "confidence_level", "\"", ":", " ", "0.9", ",", " ", "\"",
         "reasoning", "\"", ":", " ", "\"", "clear", "\"", "}">>,
      \* the empty text
      EMPTY |->
         <<>>,
      \* prose without any bracket
      PROSE |->
         <<"I", " ", "cannot", " ", "answer", " ", "in", " ", "JSON">>,
      \* valid JSON that is no mapping
      JSON_LIST |->
         <<"[", "1", "]">>,
      \* a plan of one step
      PLAN_ONE |->
         <<"{", "\"", "plan_id", "\"", ":", " ", "\"", "p1", "\"", ",", " ", "\"",
         "primary_goal", "\"", ":", " ", "\"", "verify", "\"", ",", " ", "\"",
         "steps", "\"", ":", " ", "[", "{", "\"", "action", "\"", ":", " ",
         "\"", "analyze_document", "\"", "}", "]", "}">>,
      \* a plan of two steps
      PLAN_TWO |->
         <<"{", "\"", "plan_id", "\"", ":", " ", "\"", "p2", "\"", ",", " ", "\"",
         "primary_goal", "\"", ":", " ", "\"", "assess", "\"", ",", " ", "\"",
         "steps", "\"", ":", " ", "[", "{", "\"", "action", "\"", ":", " ",
         "\"", "assess_risk", "\"", "}", ",", " ", "{", "\"", "action", "\"",
         ":", " ", "\"", "assess_risk", "\"", "}", "]", "}">>,
      \* a plan whose step names no action, and without plan_id
      PLAN_NO_ACTION |->
         <<"{", "\"", "primary_goal", "\"", ":", " ", "\"", "verify", "\"", ",",
         " ", "\"", "steps", "\"", ":", " ", "[", "{", "\"", "step_number",
         "\"", ":", " ", "1", "}", "]", "}">>,
      \* the decision to adapt
      ADAPT_YES |->
         <<"{", "\"", "should_adapt", "\"", ":", " ", "true", ",", " ", "\"",
         "reason", "\"", ":", " ", "\"", "low", " ", "success", "\"", "}">>,
      \* the decision not to adapt
      ADAPT_NO |->
         <<"{", "\"", "should_adapt", "\"", ":", " ", "false", ",", " ", "\"",
         "reason", "\"", ":", " ", "\"", "keep", " ", "going", "\"", "}">>,
      \* the decision to adapt, without a reason
      ADAPT_NO_REASON |->
         <<"{", "\"", "should_adapt", "\"", ":", " ", "true", "}">>,
      \* an insight that asks for a higher priority
      REFLECT_ESCALATE |->
         <<"{", "\"", "key_learnings", "\"", ":", " ", "[", "\"", "learning1",
         "\"", "]", ",", " ", "\"", "future_goal_adjustments", "\"", ":", " ",
         "[", "\"", "Raise", " ", "priority", " ", "to", " ", "HIGH", "\"", "]",
         "}">>,
      \* an insight that mentions priority but no escalation
      REFLECT_PLAIN |->
         <<"{", "\"", "key_learnings", "\"", ":", " ", "[", "\"", "learning2",
         "\"", "]", ",", " ", "\"", "future_goal_adjustments", "\"", ":", " ",
         "[", "\"", "review", " ", "priority", "\"", "]", "}">>,
      \* an insight with an empty list of key learnings
      REFLECT_EMPTY |->
         <<"{", "\"", "key_learnings", "\"", ":", " ", "[", "]", "}">>,
      \* a well-formed negotiation strategy
      NEGOTIATION_OK |->
         <<"{", "\"", "negotiation_position", "\"", ":", " ", "\"", "parallel",
         "\"", ",", " ", "\"", "opening_offer", "\"", ":", " ", "\"", "share",
         " ", "results", "\"", "}">>,
      \* the answers that name a coordination strategy
      STRATEGY_SEQUENTIAL |->
         <<"{", "\"", "strategy", "\"", ":", " ", "\"", "sequential", "\"", ",",
         " ", "\"", "reasoning", "\"", ":", " ", "\"", "simple", "\"", "}">>,
      STRATEGY_PARALLEL |->
         <<"{", "\"", "strategy", "\"", ":", " ", "\"", "parallel", "\"", ",",
         " ", "\"", "reasoning", "\"", ":", " ", "\"", "faster", "\"", "}">>,
      STRATEGY_NEGOTIATED |->
         <<"{", "\"", "strategy", "\"", ":", " ", "\"", "negotiated", "\"", ",",
         " ", "\"", "reasoning", "\"", ":", " ", "\"", "collaborate", "\"", "}">>,
      STRATEGY_COMPETITIVE |->
         <<"{", "\"", "strategy", "\"", ":", " ", "\"", "competitive", "\"", ",",
         " ", "\"", "reasoning", "\"", ":", " ", "\"", "best", " ", "wins",
         "\"", "}">>,
      \* the document actor's choice of a processing strategy
      CHOICE_STRATEGY |->
         <<"{", "\"", "strategy", "\"", ":", " ", "\"", "rural_optimized", "\"", ",",
         " ", "\"", "reasoning", "\"", ":", " ", "\"", "inclusion", "\"", "}">>,
      \* the risk actor's choice of a risk model
      CHOICE_MODEL |->
         <<"{", "\"", "model", "\"", ":", " ", "\"", "inclusion_balanced", "\"", ",",
         " ", "\"", "reasoning", "\"", ":", " ", "\"", "balanced", "\"", "}">>,
      \* an answer that names no strategy
      STRATEGY_UNNAMED |->
         <<"{", "\"", "reasoning", "\"", ":", " ", "\"", "any", " ", "will", " ",
         "do", "\"", "}">>,
      \* a well-formed synthesis
      SYNTHESIS_APPROVED |->
         <<"{", "\"", "final_status", "\"", ":", " ", "\"", "approved", "\"", ",",
         " ", "\"", "synthesis_confidence", "\"", ":", " ", "0.9", ",", " ",
         "\"", "agent_consensus", "\"", ":", " ", "\"", "agreement", "\"", "}">>,
      \* a synthesis cut off in the middle
      SYNTHESIS_TRUNCATED |->
         <<"{", "\"", "final_status", "\"", ":", " ", "\"", "approved", "\"", ",",
         " ", "\"", "synthesis_confidence", "\"", ":", " ">> ]

\* The mappings src/models/base_agent.py writes out, read from their JSON.
AGENT_LITERALS ==
    [
      \* the mapping _fallback_situation_analysis returns, as JSON
      FALLBACK_ANALYSIS |->
         json_loads(
            <<"{", "\"", "situation_type", "\"", ":", " ", "\"", "unknown", "\"",
            ",", " ", "\"", "key_challenges", "\"", ":", " ", "[", "\"", "AI", " ",
            "analysis", " ", "unavailable", "\"", "]", ",", " ", "\"",
            "opportunities", "\"", ":", " ", "[", "\"", "Use", " ", "fallback",
            " ", "logic", "\"", "]", ",", " ", "\"", "relevant_goals", "\"", ":",
            " ", "[", "\"", "primary", "\"", "]", ",", " ", "\"",
            "confidence_level", "\"", ":", " ", "0.3", ",", " ", "\"", "reasoning",
            "\"", ":", " ", "\"", "Using", " ", "fallback", " ", "analysis", " ",
            "due", " ", "to", " ", "AI", " ", "failure", "\"", "}">>).val,
      \* the fallback_dict of the analysis, as JSON
      PARSE_FALLBACK_ANALYSIS |->
         json_loads(
            <<"{", "\"", "situation_type", "\"", ":", " ", "\"", "unknown", "\"",
            ",", " ", "\"", "key_challenges", "\"", ":", " ", "[", "\"", "AI", " ",
            "analysis", " ", "unavailable", "\"", "]", ",", " ", "\"",
            "relevant_goals", "\"", ":", " ", "[", "\"", "primary", "\"", "]", ",",
            " ", "\"", "confidence_level", "\"", ":", " ", "0.3", ",", " ", "\"",
            "reasoning", "\"", ":", " ", "\"", "Using", " ", "fallback", " ",
            "analysis", " ", "due", " ", "to", " ", "parsing", " ", "failure",
            "\"", "}">>).val,
      \* the fallback_dict of the plan without its plan_id, as JSON
      PARSE_FALLBACK_PLAN |->
         json_loads(
            <<"{", "\"", "primary_goal", "\"", ":", " ", "\"", "Unknown", " ",
            "goal", "\"", ",", " ", "\"", "steps", "\"", ":", " ", "[", "]", ",",
            " ", "\"", "contingencies", "\"", ":", " ", "[", "]", ",", " ", "\"",
            "expected_outcome", "\"", ":", " ", "\"", "Unknown", " ", "outcome",
            "\"", ",", " ", "\"", "overall_confidence", "\"", ":", " ", "0.4", ",",
            " ", "\"", "customer_segment", "\"", ":", " ", "\"", "General", "\"",
            ",", " ", "\"", "inclusion_strategy", "\"", ":", " ", "\"", "Basic",
            " ", "approach", "\"", "}">>).val,
      \* the steps of _create_fallback_plan, as JSON
      FALLBACK_STEPS |->
         json_loads(
            <<"[", "{", "\"", "step_number", "\"", ":", " ", "1", ",", " ", "\"",
            "action", "\"", ":", " ", "\"", "Use", " ", "basic", " ", "processing",
            "\"", ",", " ", "\"", "reasoning", "\"", ":", " ", "\"", "AI", " ",
            "planning", " ", "unavailable", "\"", "}", "]">>).val,
      \* the fallback_dict of the adaptation decision, as JSON
      PARSE_FALLBACK_DECISION |->
         json_loads(
            <<"{", "\"", "should_adapt", "\"", ":", " ", "false", ",", " ", "\"",
            "reason", "\"", ":", " ", "\"", "Adaptation", " ", "decision", " ",
            "failed", "\"", ",", " ", "\"", "confidence", "\"", ":", " ", "0.5",
            "}">>).val,
      \* the fallback_dict of the reflection, as JSON
      PARSE_FALLBACK_INSIGHT |->
         json_loads(
            <<"{", "\"", "key_learnings", "\"", ":", " ", "[", "\"", "Learning", " ",
            "process", " ", "failed", "\"", "]", ",", " ", "\"",
            "confidence_in_learning", "\"", ":", " ", "0.2", ",", " ", "\"",
            "behavioral_adaptations", "\"", ":", " ", "[", "]", ",", " ", "\"",
            "future_goal_adjustments", "\"", ":", " ", "[", "]", "}">>).val,
      \* what _reflect_and_learn returns from its except clause, as JSON
      REFLECTION_FAILED |->
         json_loads(
            <<"{", "\"", "key_learnings", "\"", ":", " ", "[", "\"", "Reflection",
            " ", "process", " ", "failed", "\"", "]", ",", " ", "\"",
            "confidence_in_learning", "\"", ":", " ", "0.1", "}">>).val,
      \* the fallback_dict of a negotiation, as JSON
      PARSE_FALLBACK_NEGOTIATION |->
         json_loads(
            <<"{", "\"", "negotiation_position", "\"", ":", " ", "\"", "Cooperative",
            " ", "approach", "\"", ",", " ", "\"", "opening_offer", "\"", ":", " ",
            "\"", "Work", " ", "together", " ", "on", " ", "shared", " ", "goals",
            "\"", ",", " ", "\"", "concession_strategy", "\"", ":", " ", "\"",
            "Collaborative", "\"", ",", " ", "\"", "success_metrics", "\"", ":",
            " ", "[", "\"", "mutual_benefit", "\"", "]", "}">>).val,
      \* what negotiate_with_agent returns from its except clause, as JSON
      NEGOTIATION_FAILED |->
         json_loads(
            <<"{", "\"", "negotiation_position", "\"", ":", " ", "\"", "Cooperative",
            " ", "approach", "\"", ",", " ", "\"", "opening_offer", "\"", ":", " ",
            "\"", "Work", " ", "together", " ", "on", " ", "shared", " ", "goals",
            "\"", "}">>).val ]

\* The mappings src/agents/orchestrator.py writes out, read from their JSON.
COORD_LITERALS ==
    [
      \* the default strategy of _negotiate_coordination_strategy, as JSON
      DEFAULT_STRATEGY |->
         json_loads(
            <<"{", "\"", "strategy", "\"", ":", " ", "\"", "sequential", "\"", ",",
            " ", "\"", "reasoning", "\"", ":", " ", "\"", "Default", " ",
            "coordination", " ", "due", " ", "to", " ", "negotiation", " ",
            "failure", "\"", ",", " ", "\"", "coordination_details", "\"", ":",
            " ", "{", "\"", "information_sharing", "\"", ":", " ", "\"", "basic",
            "\"", "}", "}">>).val,
      \* the fallback_dict of the synthesis, as JSON
      PARSE_FALLBACK_SYNTHESIS |->
         json_loads(
            <<"{", "\"", "final_status", "\"", ":", " ", "\"", "manual_review", "\"",
            ",", " ", "\"", "synthesis_reasoning", "\"", ":", " ", "\"",
            "Autonomous", " ", "synthesis", " ", "failed", ",", " ", "requiring",
            " ", "human", " ", "review", "\"", ",", " ", "\"",
            "synthesis_confidence", "\"", ":", " ", "0.3", ",", " ", "\"",
            "agent_consensus", "\"", ":", " ", "\"", "disagreement", "\"", "}">>).val,
      \* what _autonomous_decision_synthesis returns from its except clause, as JSON
      SYNTHESIS_FAILED |->
         json_loads(
            <<"{", "\"", "final_status", "\"", ":", " ", "\"", "manual_review", "\"",
            ",", " ", "\"", "synthesis_reasoning", "\"", ":", " ", "\"",
            "Autonomous", " ", "synthesis", " ", "failed", ",", " ", "requiring",
            " ", "human", " ", "review", "\"", ",", " ", "\"",
            "synthesis_confidence", "\"", ":", " ", "0.3", ",", " ", "\"",
            "autonomy_quality", "\"", ":", " ", "{", "\"",
            "document_agent_autonomy", "\"", ":", " ", "0.5", ",", " ", "\"",
            "risk_agent_autonomy", "\"", ":", " ", "0.5", ",", " ", "\"",
            "coordination_autonomy", "\"", ":", " ", "0.3", "}", "}">>).val ]

(***************************************************************************)
(* 4. The actor cycle (src/models/base_agent.py).                          *)
(***************************************************************************)
\* An AgentGoal: its goal_type, its priority and its success_criteria, a
\* mapping from names to numbers in hundredths.
Goal(goal_type, priority, success_criteria) ==
    [goal_type |-> goal_type, priority |-> priority,
     success_criteria |-> success_criteria]

\* The goals of AutonomousDocumentAgent.
DocumentGoals ==
    << Goal("financial_inclusion", 10,
            [rural_acceptance_rate |-> 95, processing_time |-> 90000,
             language_support |-> 1500]),
       Goal("document_intelligence", 9,
            [aadhaar_variants |-> 5000, pan_accuracy |-> 98,
             vernacular_support |-> 90]),
       Goal("accessibility_optimization", 8,
            [elderly_success_rate |-> 92, assisted_processing |-> 95]),
       Goal("rural_specialization", 9,
            [rural_document_quality |-> 85, mobile_photo_acceptance |-> 90]) >>

\* The goals of AutonomousRiskAgent.
RiskGoals ==
    << Goal("inclusive_risk_assessment", 10,
            [rural_approval_rate |-> 78, false_rejection_rate |-> 5,
             bias_score |-> 2]),
       Goal("regulatory_compliance", 10,
            [rbi_compliance |-> 100, inclusion_mandate_score |-> 95,
             audit_pass_rate |-> 100]),
       Goal("alternative_credit_intelligence", 9,
            [alternative_data_accuracy |-> 88, informal_economy_coverage |-> 85]),
       Goal("demographic_fairness", 9,
            [gender_bias_score |-> 1, caste_bias_score |-> 1,
             regional_bias_score |-> 2]),
       Goal("cultural_adaptation", 8,
            [joint_family_assessment |-> 90, seasonal_income_handling |-> 92]) >>

\* Goals a caller of TrueAgent.__init__ passes: priorities within 1..10, a
\* 'confidence' criterion or none.
GoalLists ==
    { <<Goal(ty, pr, sc)>> :
        ty \in {"primary", "secondary"},
        pr \in {1, 9, 10},
        sc \in {[confidence |-> 85], [confidence |-> 98], [accuracy |-> 90]} }
        \cup { << Goal("primary", 9, [confidence |-> 85]),
                  Goal("secondary", 5, [confidence |-> 93, accuracy |-> 90]) >> }

\* What one invocation of the model through bedrock_api_call_with_retry
\* gives: the text of the answer, or the error the wrapper raised.
Answered(text) == [raised |-> FALSE, text |-> text]
Failed(e) == [raised |-> TRUE, text |-> e]

ModelFailures ==
    { Failed(<<"An error occurred (", "ThrottlingException", ") when calling InvokeModel">>),
      Failed(<<"An error occurred (", "AccessDeniedException", ") when calling InvokeModel">>) }

\* The answers the model gives to each kind of prompt.
Answers ==
    [analyze |-> {Answered(MODEL_TEXT.ANALYSIS_OK), Answered(MODEL_TEXT.PROSE),
                  Answered(MODEL_TEXT.EMPTY), Answered(MODEL_TEXT.JSON_LIST)},
     plan |-> {Answered(MODEL_TEXT.PLAN_ONE), Answered(MODEL_TEXT.PLAN_TWO),
               Answered(MODEL_TEXT.PLAN_NO_ACTION), Answered(MODEL_TEXT.PROSE),
               Answered(MODEL_TEXT.EMPTY), Answered(MODEL_TEXT.JSON_LIST)},
     adapt |-> {Answered(MODEL_TEXT.ADAPT_YES), Answered(MODEL_TEXT.ADAPT_NO),
                Answered(MODEL_TEXT.ADAPT_NO_REASON), Answered(MODEL_TEXT.PROSE),
                Answered(MODEL_TEXT.EMPTY), Answered(MODEL_TEXT.JSON_LIST)},
     reflect |-> {Answered(MODEL_TEXT.REFLECT_ESCALATE), Answered(MODEL_TEXT.REFLECT_PLAIN),
                  Answered(MODEL_TEXT.REFLECT_EMPTY), Answered(MODEL_TEXT.PROSE),
                  Answered(MODEL_TEXT.EMPTY), Answered(MODEL_TEXT.JSON_LIST)},
     negotiate |-> {Answered(MODEL_TEXT.NEGOTIATION_OK), Answered(MODEL_TEXT.PROSE),
                    Answered(MODEL_TEXT.EMPTY)},
     choose_strategy |-> {Answered(MODEL_TEXT.CHOICE_STRATEGY),
                          Answered(MODEL_TEXT.STRATEGY_UNNAMED),
                          Answered(MODEL_TEXT.PROSE), Answered(MODEL_TEXT.JSON_LIST)},
     choose_model |-> {Answered(MODEL_TEXT.CHOICE_MODEL),
                       Answered(MODEL_TEXT.STRATEGY_UNNAMED),
                       Answered(MODEL_TEXT.PROSE), Answered(MODEL_TEXT.JSON_LIST)},
     strategy |-> {Answered(MODEL_TEXT.STRATEGY_SEQUENTIAL),
                   Answered(MODEL_TEXT.STRATEGY_PARALLEL),
                   Answered(MODEL_TEXT.STRATEGY_NEGOTIATED),
                   Answered(MODEL_TEXT.STRATEGY_COMPETITIVE),
                   Answered(MODEL_TEXT.STRATEGY_UNNAMED), Answered(MODEL_TEXT.PROSE),
                   Answered(MODEL_TEXT.EMPTY), Answered(MODEL_TEXT.JSON_LIST)},
     synthesis |-> {Answered(MODEL_TEXT.SYNTHESIS_APPROVED),
                    Answered(MODEL_TEXT.SYNTHESIS_TRUNCATED),
                    Answered(MODEL_TEXT.PROSE), Answered(MODEL_TEXT.EMPTY),
                    Answered(MODEL_TEXT.JSON_LIST)}]

\* A run of the model: free, where every call may give any answer or fail,
\* or steady, where every call of a kind gives the same outcome and the step
\* handlers score at one end of their range.
FreeScript ==
    [free |-> TRUE, analyze |-> Answered(<<>>), plan |-> Answered(<<>>),
     adapt |-> Answered(<<>>), reflect |-> Answered(<<>>),
     negotiate |-> Answered(<<>>), choose_strategy |-> Answered(<<>>),
     choose_model |-> Answered(<<>>), handler |-> "any"]

SteadyScripts ==
    { [free |-> FALSE, analyze |-> Answered(MODEL_TEXT.ANALYSIS_OK), plan |-> Answered(MODEL_TEXT.PLAN_ONE),
       adapt |-> Answered(MODEL_TEXT.ADAPT_NO), reflect |-> Answered(MODEL_TEXT.REFLECT_ESCALATE),
       negotiate |-> Answered(MODEL_TEXT.NEGOTIATION_OK),
       choose_strategy |-> Answered(MODEL_TEXT.CHOICE_STRATEGY),
       choose_model |-> Answered(MODEL_TEXT.CHOICE_MODEL), handler |-> "high"],
      [free |-> FALSE, analyze |-> Answered(MODEL_TEXT.ANALYSIS_OK), plan |-> Answered(MODEL_TEXT.PLAN_TWO),
       adapt |-> Answered(MODEL_TEXT.ADAPT_YES), reflect |-> Answered(MODEL_TEXT.REFLECT_PLAIN),
       negotiate |-> Answered(MODEL_TEXT.PROSE),
       choose_strategy |-> Answered(MODEL_TEXT.CHOICE_STRATEGY),
       choose_model |-> Answered(MODEL_TEXT.CHOICE_MODEL), handler |-> "low"],
      [free |-> FALSE, analyze |-> Answered(MODEL_TEXT.PROSE), plan |-> Answered(MODEL_TEXT.PLAN_ONE),
       adapt |-> Answered(MODEL_TEXT.ADAPT_YES), reflect |-> Answered(MODEL_TEXT.REFLECT_ESCALATE),
       negotiate |-> Answered(MODEL_TEXT.NEGOTIATION_OK),
       choose_strategy |-> Answered(MODEL_TEXT.CHOICE_STRATEGY),
       choose_model |-> Answered(MODEL_TEXT.CHOICE_MODEL), handler |-> "low"],
      [free |-> FALSE, analyze |-> Answered(MODEL_TEXT.ANALYSIS_OK), plan |-> Answered(MODEL_TEXT.PLAN_ONE),
       adapt |-> Answered(MODEL_TEXT.ADAPT_NO_REASON), reflect |-> Answered(MODEL_TEXT.REFLECT_PLAIN),
       negotiate |-> Answered(MODEL_TEXT.NEGOTIATION_OK),
       choose_strategy |-> Answered(MODEL_TEXT.CHOICE_STRATEGY),
       choose_model |-> Answered(MODEL_TEXT.CHOICE_MODEL), handler |-> "low"],
      [free |-> FALSE, analyze |-> Answered(MODEL_TEXT.ANALYSIS_OK), plan |-> Answered(MODEL_TEXT.PLAN_TWO),
       adapt |-> Answered(MODEL_TEXT.ADAPT_NO_REASON), reflect |-> Answered(MODEL_TEXT.REFLECT_EMPTY),
       negotiate |-> Answered(MODEL_TEXT.NEGOTIATION_OK),
       choose_strategy |-> Answered(MODEL_TEXT.CHOICE_STRATEGY),
       choose_model |-> Answered(MODEL_TEXT.CHOICE_MODEL), handler |-> "low"],
      [free |-> FALSE,
       analyze |-> Failed(<<"ValidationException">>),
       plan |-> Failed(<<"ValidationException">>),
       adapt |-> Failed(<<"ValidationException">>),
       reflect |-> Failed(<<"ValidationException">>),
       negotiate |-> Failed(<<"ValidationException">>),
       choose_strategy |-> Failed(<<"ValidationException">>),
       choose_model |-> Failed(<<"ValidationException">>), handler |-> "high"] }

ModelAnswers(kind) ==
    IF script.free THEN Answers[kind] \cup ModelFailures ELSE {script[kind]}

\* ---- the step handlers
\* What _execute_step_autonomously gives: the 'success' of its result in
\* thousandths, or the exception it raised, and the model calls it made.
Succeeded(n) == [raised |-> FALSE, err |-> "none", success |-> n, calls |-> <<>>]
Threw(e) == [raised |-> TRUE, err |-> e, success |-> 0, calls |-> <<>>]

\* action = step.get('action', ''), of which action.lower() is taken
StepAction(step) ==
    LET g == PyGet(step, "action", StrVal(<<>>))
    IN  IF g.ok /\ g.val.t # "str" THEN Err("AttributeError") ELSE g

\* TrueAgent._execute_step_autonomously
BASE_STEP_SUCCESS == 800
TrueAgentStep(step) == {Succeeded(BASE_STEP_SUCCESS)}

\* AutonomousDocumentAgent._execute_step_autonomously.  The analysis of the
\* document first asks the model for a strategy, which is the fallback
\* strategy when the call or the parsing failed; it scores the mean
\* confidence of the fields Textract found, or 0.1 when Textract raised, and
\* reads strategy_decision['strategy'] on both ways.
DocumentAgentStep(step) ==
    LET action == StepAction(step)
    IN  IF ~action.ok THEN {Threw(action.err)}
        ELSE IF Mentions(action.val, "analyze_document")
             THEN UNION { LET fallback == ObjVal({[k |-> <<"strategy">>,
                                                   v |-> StrVal(<<"rural_optimized">>)]})
                              chosen == safe_json_parse(c.text, fallback)
                              strategy_decision ==
                                  IF c.raised \/ chosen.raised THEN fallback
                                  ELSE chosen.value
                              strategy == PyItem(strategy_decision, "strategy")
                              asked == <<[kind |-> "choose_strategy", outcome |-> c]>>
                          IN  IF strategy.ok
                              THEN {[Succeeded(900) EXCEPT !.calls = asked],
                                    [Succeeded(100) EXCEPT !.calls = asked]}
                              ELSE {[Threw(strategy.err) EXCEPT !.calls = asked]}
                          : c \in ModelAnswers("choose_strategy") }
        ELSE IF Mentions(action.val, "choose_strategy") THEN {Succeeded(900)}
        ELSE IF Mentions(action.val, "extract_information") THEN {Succeeded(850)}
        ELSE IF Mentions(action.val, "quality_assessment") THEN {Succeeded(880)}
        ELSE {Succeeded(700)}

\* AutonomousRiskAgent._execute_step_autonomously.  The assessment first
\* asks the model for a risk model, which is the fallback model when the
\* call or the parsing failed, and reads model_choice['model'] to build the
\* prompt of the analysis; it scores the accuracy_confidence of the analysis
\* (0.5 when the analysis names none, 0.4 in the fallback analysis).
RiskAgentStep(step) ==
    LET action == StepAction(step)
    IN  IF ~action.ok THEN {Threw(action.err)}
        ELSE IF Mentions(action.val, "assess_risk")
             THEN UNION { LET fallback == ObjVal({[k |-> <<"model">>,
                                                   v |-> StrVal(<<"inclusion_balanced">>)]})
                              chosen == safe_json_parse(c.text, fallback)
                              model_choice ==
                                  IF c.raised \/ chosen.raised THEN fallback
                                  ELSE chosen.value
                              model == PyItem(model_choice, "model")
                              asked == <<[kind |-> "choose_model", outcome |-> c]>>
                          IN  IF model.ok
                              THEN {[Succeeded(900) EXCEPT !.calls = asked],
                                    [Succeeded(500) EXCEPT !.calls = asked],
                                    [Succeeded(400) EXCEPT !.calls = asked]}
                              ELSE {[Threw(model.err) EXCEPT !.calls = asked]}
                          : c \in ModelAnswers("choose_model") }
        ELSE IF Mentions(action.val, "compliance_check") THEN {Succeeded(920)}
        ELSE IF Mentions(action.val, "choose_model") THEN {Succeeded(890)}
        ELSE {Succeeded(750)}

\* The outcomes of the _execute_step_autonomously of the actor's class that
\* the run's script lets it have.
ScriptedStepOutcomes(class, step) ==
    LET all == CASE class = "AutonomousDocumentAgent" -> DocumentAgentStep(step)
                 [] class = "AutonomousRiskAgent" -> RiskAgentStep(step)
                 [] OTHER -> TrueAgentStep(step)
        scored == {o \in all : ~o.raised}
    IN  IF script.free \/ scored = {} THEN all
        ELSE IF script.handler = "high"
             THEN {o \in scored : \A p \in scored : p.success <= o.success}
        ELSE {o \in scored : \A p \in scored : o.success <= p.success}

\* ---- the objects of a cycle
Actors == DOMAIN agent_pc

\* An AgentPlan: its plan_id, goal and steps (the other fields are copied
\* from the answer in the same way and read by nothing).
AgentPlan(plan_id, goal, steps) == [plan_id |-> plan_id, goal |-> goal, steps |-> steps]

\* self.current_plan = None
NoPlan == AgentPlan(None, None, None)

NoExecution ==
    [plan_executed |-> NoPlan, step_results |-> <<>>, adaptations_made |-> 0,
     overall_success |-> 0]

\* The local variables of autonomous_process before its first statement,
\* and the model calls the cycle has made, each with what it gave.
NoLocals ==
    [situation_analysis |-> None, plan |-> NoPlan, step_no |-> 0,
     execution_results |-> <<>>, execution_result |-> NoExecution,
     learning_insight |-> None, calls |-> <<>>]

NoResult ==
    [situation_analysis |-> None, autonomous_plan |-> NoPlan,
     execution_result |-> NoExecution, learning_insight |-> None,
     adaptation_level |-> 0]


\* The fallback_dict of the plan: a fresh plan_id and no steps.
ParseFallbackPlan(a) ==
    LET d == AGENT_LITERALS.PARSE_FALLBACK_PLAN
    IN  ObjVal(d.members \cup {[k |-> <<"plan_id">>, v |-> Uuid(a, cycles[a])]})

\* _create_fallback_plan
FallbackPlan(a) ==
    AgentPlan(Uuid(a, cycles[a]),
              StrVal(<<"Execute", " ", "fallback", " ", "procedure">>),
              AGENT_LITERALS.FALLBACK_STEPS)

\* The call of autonomous_process.
BeginCycle(a) ==
    /\ agent_pc' = [agent_pc EXCEPT ![a] = "analyze"]
    /\ local' = [local EXCEPT ![a] = NoLocals]
    /\ cycles' = [cycles EXCEPT ![a] = @ + 1]

\* An exception leaves autonomous_process.
Propagate(a) == agent_pc' = [agent_pc EXCEPT ![a] = "raised"]

\* _analyze_situation_autonomously
AnalyzeSituation(a) ==
    /\ agent_pc[a] = "analyze"
    /\ \E o \in ModelAnswers("analyze") :
         LET analysis == safe_json_parse(o.text, AGENT_LITERALS.PARSE_FALLBACK_ANALYSIS)
             reasoning == PyGet(analysis.value, "reasoning", None)
             result == IF o.raised \/ analysis.raised \/ ~reasoning.ok
                       THEN AGENT_LITERALS.FALLBACK_ANALYSIS
                       ELSE analysis.value
         IN  local' = [local EXCEPT ![a].situation_analysis = result,
                  ![a].calls = Append(@, [kind |-> "analyze", outcome |-> o])]
    /\ agent_pc' = [agent_pc EXCEPT ![a] = "plan"]
    /\ UNCHANGED <<script, handler_class, goals, memory_bank, current_plan,
                   reflection_history, negotiation_history, adaptation_count,
                   process_result, cycles>>

\* The AgentPlan built from plan_data, or the exception a .get raised.
PlanFrom(a, plan_data) ==
    LET plan_id == PyGet(plan_data, "plan_id", Uuid(a, cycles[a]))
        goal == PyGet(plan_data, "primary_goal", StrVal(<<"Unknown", " ", "goal">>))
        steps == PyGet(plan_data, "steps", ArrVal(<<>>))
    IN  IF plan_id.ok THEN Val(AgentPlan(plan_id.val, goal.val, steps.val))
        ELSE Err(plan_id.err)

\* _create_autonomous_plan
CreatePlan(a) ==
    /\ agent_pc[a] = "plan"
    /\ \E o \in ModelAnswers("plan") :
         LET plan_data == safe_json_parse(o.text, ParseFallbackPlan(a))
             built == PlanFrom(a, plan_data.value)
         IN  IF o.raised \/ plan_data.raised \/ ~built.ok
             THEN /\ local' = [local EXCEPT ![a].plan = FallbackPlan(a), ![a].step_no = 1,
                                ![a].calls = Append(@, [kind |-> "plan", outcome |-> o])]
                  /\ UNCHANGED current_plan
             ELSE /\ local' = [local EXCEPT ![a].plan = built.val, ![a].step_no = 1,
                                ![a].calls = Append(@, [kind |-> "plan", outcome |-> o])]
                  /\ current_plan' = [current_plan EXCEPT ![a] = built.val]
    /\ agent_pc' = [agent_pc EXCEPT ![a] = "execute"]
    /\ UNCHANGED <<script, handler_class, goals, memory_bank, reflection_history,
                   negotiation_history, adaptation_count, process_result, cycles>>

\* if step_result['success'] < 0.5
ADAPT_THRESHOLD == 500
NeedsDecisionMutant(success) == success <= ADAPT_THRESHOLD

NeedsDecision(success) == success < ADAPT_THRESHOLD

\* "should_adapt": step_result['success'] < 0.3, in the except clause
CONSERVATIVE_THRESHOLD == 300

ConservativeDecisionMutant(success) ==
    ObjVal({ [k |-> <<"should_adapt">>, v |-> LitVal(IF success < CONSERVATIVE_THRESHOLD THEN "true" ELSE "false")],
             [k |-> <<"confidence">>, v |-> NumVal(<<"0.6">>)] })

ConservativeDecision(success) ==
    ObjVal({ [k |-> <<"should_adapt">>, v |-> LitVal(IF success < CONSERVATIVE_THRESHOLD THEN "true" ELSE "false")],
             [k |-> <<"reason">>,
              v |-> StrVal(<<"Low", " ", "success", " ", "rate", " ", "detected">>)],
             [k |-> <<"confidence">>, v |-> NumVal(<<"0.6">>)] })

\* A bug that reports the success of the last step.
OverallSuccessMutant(results) ==
    IF results = <<>> THEN 0 ELSE results[Len(results)].success

\* sum(r['success'] for r in execution_results) / len(execution_results)
\* if execution_results else 0
OverallSuccess(results) ==
    IF results = <<>> THEN 0
    ELSE SumSeq([i \in 1..Len(results) |-> results[i].success]) \div Len(results)

\* One pass of the loop of _execute_plan_autonomously up to the test of the
\* step's success: the step handler runs and its result is appended.
ExecuteStep(a) ==
    /\ agent_pc[a] = "execute"
    /\ LET steps == Iterate(local[a].plan.steps)
       IN  IF ~steps.ok
           THEN Propagate(a) /\ UNCHANGED local
           ELSE /\ local[a].step_no <= Len(steps.val)
                /\ \E o \in ScriptedStepOutcomes(handler_class[a],
                                                 steps.val[local[a].step_no]) :
                     IF o.raised
                     THEN /\ Propagate(a)
                          /\ local' = [local EXCEPT ![a].calls = @ \o o.calls]
                     ELSE LET step_result ==
                                  [step |-> steps.val[local[a].step_no],
                                   success |-> o.success]
                          IN  /\ local' = [local EXCEPT
                                    ![a].execution_results = Append(@, step_result),
                                    ![a].calls = @ \o o.calls,
                                    ![a].step_no =
                                        IF NeedsDecision(o.success) THEN @ ELSE @ + 1]
                              /\ agent_pc' = [agent_pc EXCEPT ![a] =
                                    IF NeedsDecision(o.success)
                                    THEN "should_adapt" ELSE "execute"]
    /\ UNCHANGED <<script, handler_class, goals, memory_bank, current_plan,
                   reflection_history, negotiation_history, adaptation_count,
                   process_result, cycles>>

\* _should_adapt_plan
should_adapt_plan(o, success) ==
    IF o.raised THEN ConservativeDecision(success)
    ELSE LET decision == safe_json_parse(o.text, AGENT_LITERALS.PARSE_FALLBACK_DECISION)
         IN  IF decision.raised THEN ConservativeDecision(success)
             ELSE decision.value

\* _adapt_plan_autonomously
adapt_plan_autonomously(current, step_result) == current

\* The rest of the pass for a step that scored below 0.5: the decision is
\* asked for and, when it says so, the plan is adapted and counted.
DecideAdaptation(a) ==
    /\ agent_pc[a] = "should_adapt"
    /\ \E o \in ModelAnswers("adapt") :
         LET step_result == local[a].execution_results[Len(local[a].execution_results)]
             adaptation_decision == should_adapt_plan(o, step_result.success)
             should_adapt == PyItem(adaptation_decision, "should_adapt")
             reason == PyItem(adaptation_decision, "reason")
         IN  IF ~should_adapt.ok \/ (Truthy(should_adapt.val) /\ ~reason.ok)
             THEN /\ Propagate(a)
                  /\ local' = [local EXCEPT
                        ![a].calls = Append(@, [kind |-> "adapt", outcome |-> o])]
                  /\ UNCHANGED adaptation_count
             ELSE /\ agent_pc' = [agent_pc EXCEPT ![a] = "execute"]
                  /\ IF Truthy(should_adapt.val)
                     THEN /\ local' = [local EXCEPT
                                ![a].plan = adapt_plan_autonomously(@, step_result),
                                ![a].calls = Append(@, [kind |-> "adapt", outcome |-> o]),
                                ![a].step_no = @ + 1]
                          /\ adaptation_count' = [adaptation_count EXCEPT ![a] = @ + 1]
                     ELSE /\ local' = [local EXCEPT ![a].step_no = @ + 1,
                                ![a].calls = Append(@, [kind |-> "adapt", outcome |-> o])]
                          /\ UNCHANGED adaptation_count
    /\ UNCHANGED <<script, handler_class, goals, memory_bank, current_plan,
                   reflection_history, negotiation_history, process_result, cycles>>

\* The return of _execute_plan_autonomously, once the loop has passed every
\* step.
FinishExecution(a) ==
    /\ agent_pc[a] = "execute"
    /\ Iterate(local[a].plan.steps).ok
    /\ local[a].step_no > Len(Iterate(local[a].plan.steps).val)
    /\ local' = [local EXCEPT ![a].execution_result =
                    [plan_executed |-> local[a].plan,
                     step_results |-> local[a].execution_results,
                     adaptations_made |-> adaptation_count[a],
                     overall_success |-> OverallSuccess(local[a].execution_results)]]
    /\ agent_pc' = [agent_pc EXCEPT ![a] = "reflect"]
    /\ UNCHANGED <<script, handler_class, goals, memory_bank, current_plan,
                   reflection_history, negotiation_history, adaptation_count,
                   process_result, cycles>>

\* if len(self.memory_bank) > 20: self.memory_bank = self.memory_bank[-15:]
MEMORY_CAP == 20
MEMORY_KEEP == 15

TrimMemoryMutant(bank) ==
    IF Len(bank) >= MEMORY_CAP
    THEN SubSeq(bank, Len(bank) - MEMORY_KEEP + 1, Len(bank))
    ELSE bank

\* A bug that forgets everything when a second record arrives.
TrimMemoryForgets(bank) == IF Len(bank) > 1 THEN <<>> ELSE bank

TrimMemory(bank) ==
    IF Len(bank) > MEMORY_CAP
    THEN SubSeq(bank, Len(bank) - MEMORY_KEEP + 1, Len(bank))
    ELSE bank

\* The AgentMemory of a cycle, or the exception its construction raised.
\* The timestamp is the number of the reflection that stored it.
MemoryFrom(a, plan, execution_result, insight) ==
    LET first_step == PyFirst(plan.steps)
        action == IF ~Truthy(plan.steps) THEN Val(StrVal(<<"No", " ", "action">>))
                  ELSE IF first_step.ok THEN PyItem(first_step.val, "action")
                  ELSE first_step
        key_learnings == PyGet(insight, "key_learnings",
                               ArrVal(<<StrVal(<<"No", " ", "specific", " ", "learning">>)>>))
        learned == IF key_learnings.ok THEN PyFirst(key_learnings.val) ELSE key_learnings
    IN  [ok |-> action.ok /\ learned.ok,
         memory |-> [situation_pattern |-> plan.goal,
                     action_taken |-> action.val,
                     success_score |-> execution_result.overall_success,
                     learned_insight |-> learned.val,
                     timestamp |-> Len(reflection_history[a]) + 1]]

\* _reflect_and_learn
ReflectAndLearn(a) ==
    /\ agent_pc[a] = "reflect"
    /\ \E o \in ModelAnswers("reflect") :
         LET learning_insight == safe_json_parse(o.text, AGENT_LITERALS.PARSE_FALLBACK_INSIGHT)
             built == MemoryFrom(a, local[a].plan, local[a].execution_result,
                                 learning_insight.value)
         IN  IF o.raised \/ learning_insight.raised \/ ~built.ok
             THEN /\ local' = [local EXCEPT
                        ![a].learning_insight = AGENT_LITERALS.REFLECTION_FAILED,
                        ![a].calls = Append(@, [kind |-> "reflect", outcome |-> o])]
                  /\ UNCHANGED <<memory_bank, reflection_history>>
             ELSE /\ memory_bank' = [memory_bank EXCEPT ![a] =
                                        TrimMemory(Append(@, built.memory))]
                  /\ reflection_history' = [reflection_history EXCEPT ![a] =
                                               Append(@, learning_insight.value)]
                  /\ local' = [local EXCEPT
                        ![a].learning_insight = learning_insight.value,
                        ![a].calls = Append(@, [kind |-> "reflect", outcome |-> o])]
    /\ agent_pc' = [agent_pc EXCEPT ![a] = "adapt_behavior"]
    /\ UNCHANGED <<script, handler_class, goals, current_plan, negotiation_history,
                   adaptation_count, process_result, cycles>>

Min(x, y) == IF x <= y THEN x ELSE y

\* goal.priority = min(goal.priority + 1, 10)
PRIORITY_CAP == 10

\* min(goal.success_criteria['confidence'] + 0.05, 0.95), in hundredths
CONFIDENCE_STEP == 5
CONFIDENCE_CAP == 95

\* if len(self.memory_bank) > 3, and the memory_bank[-3:] that is averaged
EXPERIENCE_NEEDED == 3
RECENT == 3

\* if avg_success > 0.8
SUCCESS_BAR == 800

\* avg_success > 0.8.  Three scores of 0.8 are the one list whose exact mean
\* is 0.8 and whose mean in binary floating point is above it:
\* sum([0.8, 0.8, 0.8]) / 3 is 0.8000000000000002.
MeanAboveBar(scores) ==
    \/ SumSeq(scores) > RECENT * SUCCESS_BAR
    \/ scores = <<SUCCESS_BAR, SUCCESS_BAR, SUCCESS_BAR>>

\* One adaptation of future_goal_adjustments applied to every goal.
AdjustPriorities(gs, adaptation) ==
    [i \in DOMAIN gs |->
        IF Mentions(adaptation, "high") /\ gs[i].goal_type = "primary"
        THEN [gs[i] EXCEPT !.priority = Min(@ + 1, PRIORITY_CAP)]
        ELSE gs[i]]

\* The first loop of _adapt_behavior from the i-th adaptation on: the goals
\* it leaves, and whether it ended without raising (adaptation.lower() of an
\* adaptation that is no string raises AttributeError).
RECURSIVE ApplyAdjustments(_, _, _)
ApplyAdjustments(gs, items, i) ==
    IF i > Len(items) THEN [ok |-> TRUE, goals |-> gs]
    ELSE IF items[i].t # "str" THEN [ok |-> FALSE, goals |-> gs]
    ELSE IF Mentions(items[i], "priority")
         THEN ApplyAdjustments(AdjustPriorities(gs, items[i]), items, i + 1)
    ELSE ApplyAdjustments(gs, items, i + 1)

\* The second loop of _adapt_behavior.
TightenConfidence(gs, bank) ==
    LET recent == [i \in 1..RECENT |-> bank[Len(bank) - RECENT + i].success_score]
    IN  [i \in DOMAIN gs |->
            IF /\ Len(bank) > EXPERIENCE_NEEDED
               /\ MeanAboveBar(recent)
               /\ "confidence" \in DOMAIN gs[i].success_criteria
            THEN [gs[i] EXCEPT !.success_criteria.confidence =
                                   Min(@ + CONFIDENCE_STEP, CONFIDENCE_CAP)]
            ELSE gs[i]]

\* _adapt_behavior, and the return of autonomous_process that follows it
AdaptBehavior(a) ==
    /\ agent_pc[a] = "adapt_behavior"
    /\ LET adjustments == PyGet(local[a].learning_insight, "future_goal_adjustments",
                                ArrVal(<<>>))
           items == IF adjustments.ok THEN Iterate(adjustments.val) ELSE adjustments
           adjusted == ApplyAdjustments(goals[a], items.val, 1)
       IN  IF ~items.ok
           THEN Propagate(a) /\ UNCHANGED <<goals, process_result>>
           ELSE IF ~adjusted.ok
           THEN /\ Propagate(a)
                /\ goals' = [goals EXCEPT ![a] = adjusted.goals]
                /\ UNCHANGED process_result
           ELSE /\ goals' = [goals EXCEPT ![a] =
                                TightenConfidence(adjusted.goals, memory_bank[a])]
                /\ process_result' = [process_result EXCEPT ![a] =
                      [situation_analysis |-> local[a].situation_analysis,
                       autonomous_plan |-> local[a].plan,
                       execution_result |-> local[a].execution_result,
                       learning_insight |-> local[a].learning_insight,
                       adaptation_level |-> adaptation_count[a]]]
                /\ agent_pc' = [agent_pc EXCEPT ![a] = "returned"]
    /\ UNCHANGED <<script, handler_class, memory_bank, current_plan, reflection_history,
                   negotiation_history, adaptation_count, local, cycles>>

\* ---- one actor called again and again
SoloActors == {"agent"}

AgentStart ==
    /\ script \in SteadyScripts \cup {FreeScript}
    /\ handler_class \in [SoloActors -> {"TrueAgent", "AutonomousDocumentAgent",
                                         "AutonomousRiskAgent"}]
    /\ goals \in [SoloActors -> GoalLists \cup {DocumentGoals, RiskGoals}]
    /\ memory_bank = [a \in SoloActors |-> <<>>]
    /\ current_plan = [a \in SoloActors |-> NoPlan]
    /\ reflection_history = [a \in SoloActors |-> <<>>]
    /\ negotiation_history = [a \in SoloActors |-> <<>>]
    /\ adaptation_count = [a \in SoloActors |-> 0]
    /\ agent_pc = [a \in SoloActors |-> "idle"]
    /\ local = [a \in SoloActors |-> NoLocals]
    /\ process_result = [a \in SoloActors |-> NoResult]
    /\ cycles = [a \in SoloActors |-> 0]

\* A caller awaits autonomous_process of an actor that is not running.
StartCycle(a) ==
    /\ agent_pc[a] \in {"idle", "returned", "raised"}
    /\ cycles[a] < (IF script.free THEN MaxFreeCycles ELSE MaxSteadyCycles)
    /\ BeginCycle(a)
    /\ UNCHANGED <<script, handler_class, goals, memory_bank, current_plan,
                   reflection_history, negotiation_history, adaptation_count,
                   process_result>>

(***************************************************************************)
(* 5. The coordinator (src/agents/orchestrator.py).                        *)
(***************************************************************************)
\* self.agents
AGENTS == {"document", "risk"}


\* max_retries=3 of bedrock_api_call_with_retry
DEFAULT_MAX_RETRIES == 3

NoAgentResults ==
    [processing_type |-> "none", document_result |-> NoResult,
     risk_result |-> NoResult, agent_interactions |-> <<>>]

\* The local variables of autonomous_coordination before its first statement.
NoCoordLocals ==
    [doc_preference |-> None, risk_preference |-> None,
     coordination_strategy |-> None, agent_results |-> NoAgentResults,
     strategy_response |-> Answered(<<>>), synthesis_response |-> Answered(<<>>)]

NoCoordination ==
    [coordination_strategy |-> None, agent_results |-> NoAgentResults,
     final_decision |-> None,
     autonomy_metrics |->
        [document_agent_autonomy |-> [decisions_made |-> 0, adaptations_count |-> 0,
                                      learning_instances |-> 0, negotiation_instances |-> 0],
         risk_agent_autonomy |-> [decisions_made |-> 0, adaptations_count |-> 0,
                                  learning_instances |-> 0, negotiation_instances |-> 0],
         system_autonomy_score |-> 0]]

\* negotiate_with_agent of actor a with the other actor: the strategy it
\* returns and the negotiation_history it leaves.
negotiate_with_agent(a, other, topic, o) ==
    LET agent_id == [document |-> "banking_document_specialist",
                     risk |-> "inclusive_risk_specialist"]
        negotiation_strategy == safe_json_parse(o.text, AGENT_LITERALS.PARSE_FALLBACK_NEGOTIATION)
    IN  IF o.raised \/ negotiation_strategy.raised
        THEN [strategy |-> AGENT_LITERALS.NEGOTIATION_FAILED, history |-> negotiation_history[a]]
        ELSE [strategy |-> negotiation_strategy.value,
              history |-> Append(negotiation_history[a],
                                 [with_agent |-> agent_id[other], topic |-> topic,
                                  strategy |-> negotiation_strategy.value,
                                  timestamp |-> Len(negotiation_history[a]) + 1])]

\* The calls of autonomous_process the coordinator makes.
BeginCycles(S) ==
    /\ agent_pc' = [a \in Actors |-> IF a \in S THEN "analyze" ELSE agent_pc[a]]
    /\ local' = [a \in Actors |-> IF a \in S THEN NoLocals ELSE local[a]]
    /\ cycles' = [a \in Actors |-> IF a \in S THEN cycles[a] + 1 ELSE cycles[a]]

ActorsAsleep == UNCHANGED <<agent_pc, local, cycles>>

ActorStateUnchanged ==
    UNCHANGED <<script, handler_class, goals, memory_bank, current_plan,
                reflection_history, adaptation_count, process_result>>

RetryUnchanged == UNCHANGED retry_vars

\* No wrapper has been invoked by this call of autonomous_coordination.
NoInvocation ==
    /\ wrapper' = "bedrock_api_call_with_retry"
    /\ max_retries' = 0
    /\ base_delay' = BEDROCK_BASE_DELAY
    /\ attempt' = 0
    /\ rw_pc' = "idle"
    /\ call_log' = <<>>
    /\ sleep_log' = <<>>
    /\ rw_result' = [kind |-> "running", value |-> <<>>]

\* The call of autonomous_coordination for one application.
StartCoordination ==
    /\ coord_pc \in {"idle", "returned", "raised"}
    /\ \A a \in Actors : agent_pc[a] \in {"idle", "returned", "raised", "cancelled"}
    /\ applications < MaxApplications
    /\ applications' = applications + 1
    /\ coord_pc' = "negotiate_document"
    /\ coord_local' = NoCoordLocals
    /\ NoInvocation
    /\ UNCHANGED <<coordination_result, negotiation_history>>
    /\ ActorStateUnchanged /\ ActorsAsleep

\* doc_preference = await self.agents['document'].negotiate_with_agent(...)
NegotiateDocument ==
    /\ coord_pc = "negotiate_document"
    /\ \E o \in ModelAnswers("negotiate") :
         LET n == negotiate_with_agent("document", "risk", "coordination_strategy", o)
         IN  /\ negotiation_history' = [negotiation_history EXCEPT !["document"] = n.history]
             /\ coord_local' = [coord_local EXCEPT !.doc_preference = n.strategy]
    /\ coord_pc' = "negotiate_risk"
    /\ UNCHANGED <<coordination_result, applications>>
    /\ ActorStateUnchanged /\ ActorsAsleep /\ RetryUnchanged

\* risk_preference = await self.agents['risk'].negotiate_with_agent(...)
NegotiateRisk ==
    /\ coord_pc = "negotiate_risk"
    /\ \E o \in ModelAnswers("negotiate") :
         LET n == negotiate_with_agent("risk", "document", "coordination_strategy", o)
         IN  /\ negotiation_history' = [negotiation_history EXCEPT !["risk"] = n.history]
             /\ coord_local' = [coord_local EXCEPT !.risk_preference = n.strategy]
    /\ coord_pc' = "facilitate"
    /\ UNCHANGED <<coordination_result, applications>>
    /\ ActorStateUnchanged /\ ActorsAsleep /\ RetryUnchanged

\* The model's part of _negotiate_coordination_strategy.
negotiate_coordination_strategy(o) ==
    IF o.raised THEN COORD_LITERALS.DEFAULT_STRATEGY
    ELSE LET strategy == safe_json_parse(o.text, COORD_LITERALS.DEFAULT_STRATEGY)
         IN  IF strategy.raised THEN COORD_LITERALS.DEFAULT_STRATEGY ELSE strategy.value

\* The processing the tests of coordination_strategy['strategy'] select, or
\* the exception the subscript raised.
SelectProcessing(coordination_strategy) ==
    LET named == PyItem(coordination_strategy, "strategy")
    IN  IF ~named.ok THEN named
        ELSE IF named.val \in {Str("parallel"), Str("negotiated")} THEN named
        ELSE Val(Str("sequential"))

\* The end of _negotiate_coordination_strategy and the start of the
\* processing it selected, up to the first call of autonomous_process.
FacilitateAndDispatch ==
    /\ coord_pc = "facilitate"
    /\ \E o \in Answers.strategy \cup ModelFailures :
         LET coordination_strategy == negotiate_coordination_strategy(o)
             processing == SelectProcessing(coordination_strategy)
         IN  /\ coord_local' = [coord_local EXCEPT
                                   !.coordination_strategy = coordination_strategy,
                                   !.strategy_response = o]
             /\ IF ~processing.ok
                THEN coord_pc' = "raised" /\ ActorsAsleep
                ELSE IF processing.val = Str("parallel")
                THEN coord_pc' = "parallel" /\ BeginCycles({"document", "risk"})
                ELSE IF processing.val = Str("negotiated")
                THEN coord_pc' = "negotiated_document" /\ BeginCycles({"document"})
                ELSE coord_pc' = "sequential_document" /\ BeginCycles({"document"})
    /\ UNCHANGED <<coordination_result, applications, negotiation_history>>
    /\ ActorStateUnchanged /\ RetryUnchanged

SequentialRiskMutant ==
    /\ coord_pc = "sequential_document"
    /\ agent_pc["document"] \in {"reflect", "returned"}
    /\ coord_local' = [coord_local EXCEPT
                          !.agent_results.document_result = process_result["document"]]
    /\ BeginCycles({"risk"})
    /\ coord_pc' = "sequential_risk"
    /\ UNCHANGED <<coordination_result, applications, negotiation_history>>
    /\ ActorStateUnchanged /\ RetryUnchanged

\* _sequential_processing after the document actor returned
SequentialRisk ==
    /\ coord_pc = "sequential_document"
    /\ agent_pc["document"] = "returned"
    /\ coord_local' = [coord_local EXCEPT
                          !.agent_results.document_result = process_result["document"]]
    /\ BeginCycles({"risk"})
    /\ coord_pc' = "sequential_risk"
    /\ UNCHANGED <<coordination_result, applications, negotiation_history>>
    /\ ActorStateUnchanged /\ RetryUnchanged

\* The call of bedrock_api_call_with_retry in _autonomous_decision_synthesis.
BeginSynthesis ==
    /\ wrapper' = "bedrock_api_call_with_retry"
    /\ max_retries' = DEFAULT_MAX_RETRIES
    /\ base_delay' = BEDROCK_BASE_DELAY
    /\ attempt' = 0
    /\ rw_pc' = "pace"
    /\ call_log' = <<>>
    /\ sleep_log' = <<>>
    /\ rw_result' = [kind |-> "running", value |-> <<>>]

\* The return of a processing method and the call of the synthesis.
FinishProcessing(processing_type, interactions) ==
    /\ coord_local' = [coord_local EXCEPT !.agent_results =
          [processing_type |-> processing_type,
           document_result |-> process_result["document"],
           risk_result |-> process_result["risk"],
           agent_interactions |-> interactions]]
    /\ coord_pc' = "synthesis"
    /\ BeginSynthesis
    /\ UNCHANGED <<coordination_result, applications, negotiation_history>>
    /\ ActorStateUnchanged /\ ActorsAsleep

\* _sequential_processing after the risk actor returned
SequentialFinished ==
    /\ coord_pc = "sequential_risk"
    /\ agent_pc["risk"] = "returned"
    /\ FinishProcessing("sequential", <<>>)

\* _parallel_processing after asyncio.gather returned
ParallelFinished ==
    /\ coord_pc = "parallel"
    /\ \A a \in AGENTS : agent_pc[a] = "returned"
    /\ FinishProcessing("parallel", <<>>)

NegotiateCollaborationMutant ==
    /\ coord_pc = "negotiated_document"
    /\ agent_pc["document"] = "returned"
    /\ coord_local' = [coord_local EXCEPT
          !.agent_results.document_result = process_result["document"]]
    /\ BeginCycles({"risk"})
    /\ coord_pc' = "negotiated_risk"
    /\ UNCHANGED <<coordination_result, applications, negotiation_history>>
    /\ ActorStateUnchanged /\ RetryUnchanged

\* _negotiated_processing after the document actor returned: the actors
\* negotiate and the risk actor is called.
NegotiateCollaboration ==
    /\ coord_pc = "negotiated_document"
    /\ agent_pc["document"] = "returned"
    /\ \E o \in ModelAnswers("negotiate") :
         LET n == negotiate_with_agent("document", "risk", "processing_collaboration", o)
         IN  /\ negotiation_history' = [negotiation_history EXCEPT !["document"] = n.history]
             /\ coord_local' = [coord_local EXCEPT
                   !.agent_results.document_result = process_result["document"],
                   !.agent_results.agent_interactions = <<n.strategy>>]
    /\ BeginCycles({"risk"})
    /\ coord_pc' = "negotiated_risk"
    /\ UNCHANGED <<coordination_result, applications>>
    /\ ActorStateUnchanged /\ RetryUnchanged

\* _negotiated_processing after the risk actor returned
NegotiatedFinished ==
    /\ coord_pc = "negotiated_risk"
    /\ agent_pc["risk"] = "returned"
    /\ FinishProcessing("negotiated", coord_local.agent_results.agent_interactions)

\* An exception of the autonomous_process the coordinator awaits leaves
\* autonomous_coordination.
ProcessingFailed ==
    /\ LET awaited ==
              CASE coord_pc \in {"sequential_document", "negotiated_document"} -> {"document"}
                [] coord_pc \in {"sequential_risk", "negotiated_risk"} -> {"risk"}
                [] coord_pc = "parallel" -> AGENTS
                [] OTHER -> {}
       IN  \E a \in awaited : agent_pc[a] = "raised"
    /\ coord_pc' = "raised"
    /\ UNCHANGED <<coord_local, coordination_result, applications, negotiation_history>>
    /\ ActorStateUnchanged /\ ActorsAsleep /\ RetryUnchanged

\* len(autonomy_factors)
AUTONOMY_FACTORS == 8

calculate_overall_autonomy_score_Mutant ==
    LET autonomy_factors ==
            << Len(memory_bank["document"]) > 0, Len(memory_bank["risk"]) > 0,
               adaptation_count["document"] > 0, adaptation_count["document"] > 0,
               Len(negotiation_history["document"]) > 0,
               Len(negotiation_history["risk"]) > 0,
               Len(reflection_history["document"]) > 0,
               Len(reflection_history["risk"]) > 0 >>
    IN  (1000 * Cardinality({i \in 1..AUTONOMY_FACTORS : autonomy_factors[i]}))
            \div AUTONOMY_FACTORS

\* _calculate_overall_autonomy_score: the share of the eight factors that
\* hold, in thousandths.
calculate_overall_autonomy_score ==
    LET autonomy_factors ==
            << Len(memory_bank["document"]) > 0, Len(memory_bank["risk"]) > 0,
               adaptation_count["document"] > 0, adaptation_count["risk"] > 0,
               Len(negotiation_history["document"]) > 0,
               Len(negotiation_history["risk"]) > 0,
               Len(reflection_history["document"]) > 0,
               Len(reflection_history["risk"]) > 0 >>
    IN  (1000 * Cardinality({i \in 1..AUTONOMY_FACTORS : autonomy_factors[i]}))
            \div AUTONOMY_FACTORS

\* _calculate_autonomy_metrics
calculate_autonomy_metrics ==
    LET of(a) == [decisions_made |-> Len(memory_bank[a]),
                  adaptations_count |-> adaptation_count[a],
                  learning_instances |-> Len(reflection_history[a]),
                  negotiation_instances |-> Len(negotiation_history[a])]
    IN  [document_agent_autonomy |-> of("document"),
         risk_agent_autonomy |-> of("risk"),
         system_autonomy_score |-> calculate_overall_autonomy_score]

\* A bug that lets a failed synthesis approve.
autonomous_decision_synthesis_Mutant(invocation, text) ==
    IF invocation.kind = "raised"
    THEN ObjVal({ [k |-> <<"final_status">>, v |-> Str("approved")],
                  [k |-> <<"synthesis_confidence">>, v |-> NumVal(<<"0.9">>)] })
    ELSE safe_json_parse(text, COORD_LITERALS.PARSE_FALLBACK_SYNTHESIS).value

\* _autonomous_decision_synthesis after the wrapper returned or raised.
autonomous_decision_synthesis(invocation, text) ==
    IF invocation.kind = "raised" THEN COORD_LITERALS.SYNTHESIS_FAILED
    ELSE LET synthesis == safe_json_parse(text, COORD_LITERALS.PARSE_FALLBACK_SYNTHESIS)
         IN  IF synthesis.raised THEN COORD_LITERALS.SYNTHESIS_FAILED ELSE synthesis.value

\* The end of _autonomous_decision_synthesis and the return of
\* autonomous_coordination.
FinishCoordination ==
    /\ coord_pc = "synthesis"
    /\ rw_pc \in {"returned", "raised"}
    /\ \E answer \in Answers.synthesis :
         /\ coordination_result' =
               [coordination_strategy |-> coord_local.coordination_strategy,
                agent_results |-> coord_local.agent_results,
                final_decision |-> autonomous_decision_synthesis(rw_result, answer.text),
                autonomy_metrics |-> calculate_autonomy_metrics]
         /\ coord_local' = [coord_local EXCEPT !.synthesis_response =
                               IF rw_result.kind = "raised" THEN Failed(rw_result.value)
                               ELSE answer]
    /\ coord_pc' = "returned"
    /\ UNCHANGED <<applications, negotiation_history>>
    /\ ActorStateUnchanged /\ ActorsAsleep /\ RetryUnchanged

\* ---- the coordinator and its two actors
CoordStart ==
    /\ script \in SteadyScripts
    /\ handler_class = [document |-> "AutonomousDocumentAgent",
                        risk |-> "AutonomousRiskAgent"]
    /\ goals = [document |-> DocumentGoals, risk |-> RiskGoals]
    /\ memory_bank = [a \in AGENTS |-> <<>>]
    /\ current_plan = [a \in AGENTS |-> NoPlan]
    /\ reflection_history = [a \in AGENTS |-> <<>>]
    /\ negotiation_history = [a \in AGENTS |-> <<>>]
    /\ adaptation_count = [a \in AGENTS |-> 0]
    /\ agent_pc = [a \in AGENTS |-> "idle"]
    /\ local = [a \in AGENTS |-> NoLocals]
    /\ process_result = [a \in AGENTS |-> NoResult]
    /\ cycles = [a \in AGENTS |-> 0]
    /\ coord_pc = "idle"
    /\ coord_local = NoCoordLocals
    /\ coordination_result = NoCoordination
    /\ applications = 0

\* asyncio.run cancels the actor that asyncio.gather left running when the
\* other actor raised.
CancelStray ==
    /\ coord_pc = "raised"
    /\ \E a \in Actors :
         /\ agent_pc[a] \notin {"idle", "returned", "raised", "cancelled"}
         /\ agent_pc' = [agent_pc EXCEPT ![a] = "cancelled"]
    /\ UNCHANGED <<coord_pc, coord_local, coordination_result, applications,
                   negotiation_history, local, cycles>>
    /\ ActorStateUnchanged /\ RetryUnchanged

(***************************************************************************)
(* 6. Customer segmentation (src/utils/customer_segmentation.py).          *)
(***************************************************************************)
\* urban_patterns: the prefixes of the pincodes of the major urban areas.
URBAN_PATTERNS ==
    { <<"1", "2", "2">>, <<"1", "2", "1">>, <<"2", "0", "1">>, <<"1", "1", "0">>,
      <<"4", "0", "0">>, <<"5", "6", "0">>, <<"6", "0", "0">>, <<"5", "0", "0">>,
      <<"4", "1", "1">>, <<"7", "0", "0">>, <<"3", "8", "0">>, <<"3", "0", "2">>,
      <<"2", "2", "6">> }

\* _is_definitely_urban_pincode: pincode.startswith(pattern) for one of the
\* patterns.
is_definitely_urban_pincode(p) ==
    /\ p # <<>>
    /\ \E pattern \in URBAN_PATTERNS :
          Len(p) >= Len(pattern) /\ SubSeq(p, 1, Len(pattern)) = pattern

\* if income <= 300000 ... elif income >= 700000; confidence = 0.85, in
\* hundredths; float(agent_decision.get('confidence', 0.5))
LOW_INCOME == 300000
HIGH_INCOME == 700000
URBAN_CONFIDENCE == 85

fallback_with_process_Mutant(p, n) ==
    LET classified ==
            IF n <= LOW_INCOME THEN [segment |-> "Rural", confidence |-> 60]
            ELSE IF n >= HIGH_INCOME THEN [segment |-> "Urban", confidence |-> 60]
            ELSE [segment |-> "Semi-Urban", confidence |-> 50]
    IN  [customer_segment |-> classified.segment,
         confidence |-> classified.confidence,
         classification_method |-> "fallback_basic_rules",
         agent_status |-> "fallback_only"]

\* _fallback_with_process: the pincode first, then the income.
fallback_with_process(p, n) ==
    LET classified ==
            IF p # <<>> /\ is_definitely_urban_pincode(p)
            THEN [segment |-> "Urban", confidence |-> URBAN_CONFIDENCE]
            ELSE IF n <= LOW_INCOME THEN [segment |-> "Rural", confidence |-> 60]
            ELSE IF n >= HIGH_INCOME THEN [segment |-> "Urban", confidence |-> 60]
            ELSE [segment |-> "Semi-Urban", confidence |-> 50]
    IN  [customer_segment |-> classified.segment,
         confidence |-> classified.confidence,
         classification_method |-> "fallback_basic_rules",
         agent_status |-> "fallback_only"]

\* _parse_agent_response.  The text from the first '{' to the last '}' is
\* stripped of the characters below 32 other than \n, \r and \t (of which
\* the texts have \f) and loaded; the segment must be one of the three, the
\* confidence is float() of what the answer gives, clamped to [0, 1], in
\* hundredths (round(confidence, 2) changes no multiple of 0.01); every
\* exception leads to _fallback_with_process.
parse_agent_response(ai_response, p, n) ==
    LET json_start == FindFirst(ai_response, {"{"}, 1)
        json_end == FindLast(ai_response, {"}"}, Len(ai_response))
        json_str_ == SelectSeq(SubSeq(ai_response, json_start, json_end),
                               LAMBDA char : char # "\f")
        agent_decision == json_loads(json_str_)
        hundredths == [d \in DIGITS |->
                         CASE d = "0" -> 0 [] d = "1" -> 100 [] d = "0.1" -> 10
                           [] d = "0.2" -> 20 [] d = "0.3" -> 30 [] d = "0.4" -> 40
                           [] d = "0.5" -> 50 [] d = "0.6" -> 60 [] d = "0.85" -> 85
                           [] d = "0.9" -> 90 [] d = "1.5" -> 150]
        float(x) == IF x.t \in {"num", "str"} /\ Len(x.s) = 1 /\ x.s[1] \in DIGITS
                    THEN Val(hundredths[x.s[1]])
                    ELSE IF x.t \in {"num", "str"} THEN Err("ValueError")
                    ELSE IF x.t = "lit" /\ x.s # <<"null">>
                    THEN Val(IF x.s = <<"true">> THEN 100 ELSE 0)
                    ELSE Err("TypeError")
        segment == PyGet(agent_decision.val, "customer_segment", None)
        given == PyGet(agent_decision.val, "confidence", NumVal(<<"0.5">>))
        confidence == IF given.ok THEN float(given.val) ELSE given
        clamped == IF confidence.val < 0 THEN 0
                   ELSE IF confidence.val > 100 THEN 100 ELSE confidence.val
        corrected == /\ p # <<>> /\ is_definitely_urban_pincode(p)
                     /\ segment.val # Str("Urban")
    IN  IF \/ json_start = 0 \/ json_end = 0
           \/ ~agent_decision.ok
           \/ ~segment.ok
           \/ segment.val \notin {Str("Rural"), Str("Urban"), Str("Semi-Urban")}
           \/ ~confidence.ok
        THEN fallback_with_process(p, n)
        ELSE [customer_segment |-> IF corrected THEN "Urban" ELSE segment.val.s[1],
              confidence |-> IF corrected /\ clamped < URBAN_CONFIDENCE
                             THEN URBAN_CONFIDENCE ELSE clamped,
              classification_method |-> "autonomous_ai_analysis",
              agent_status |-> "fully_autonomous"]

\* The answer the prompt asks for, naming a segment and a confidence.
SegmentAnswer(segment, confidence) ==
    <<"{", "\"", "customer_segment", "\"", ":", " ", "\"", segment, "\"", ",", " ",
      "\"", "confidence", "\"", ":", " ", confidence, "}">>

NoSegmentation ==
    [customer_segment |-> "none", confidence |-> 0,
     classification_method |-> "none", agent_status |-> "none"]

\* The arguments of one call, the client and what the model gives: pincodes
\* with the urban prefixes and without, incomes around the two limits,
\* answers naming every segment with confidences in [0, 1] and outside,
\* answers in other shapes, and failed invocations.
SegmentStart ==
    /\ pincode \in { prefix \o rest :
                       prefix \in URBAN_PATTERNS \cup
                           {<<"1", "2", "3">>, <<"4", "1", "2">>, <<"0", "1", "2">>},
                       rest \in {<<"0", "0", "1">>, <<"0", "1", "8">>} }
                   \cup {<<>>, <<"1", "2">>, <<"1", "2", "2">>, <<"2", "1", "2", "2">>}
    /\ income \in {0, LOW_INCOME, LOW_INCOME + 1, HIGH_INCOME - 1, HIGH_INCOME}
    /\ bedrock_runtime \in BOOLEAN
    /\ ai_outcome \in
          { Answered(SegmentAnswer(segment, confidence)) :
               segment \in {"Rural", "Urban", "Semi-Urban", "Metro"},
               confidence \in DIGITS \ {"0.2", "0.3", "0.4", "0.6"} }
          \cup { Answered(<<"Here", " ", "it", " ", "is", ":", " ">>
                          \o SegmentAnswer(segment, "0.5") \o <<"\n", "Thanks">>) :
                    segment \in {"Rural", "Urban"} }
          \cup { Answered(text) : text \in
                    { MODEL_TEXT.PROSE, MODEL_TEXT.EMPTY, MODEL_TEXT.JSON_LIST,
                      <<"{", "\"", "customer_segment", "\"", ":", " ", "\"", "Urban", "\"", "}">>,
                      <<"{", "\"", "customer_segment", "\"", ":", " ", "\"", "Rural", "\"", "}">>,
                      <<"{", "\"", "customer_segment", "\"", ":", " ", "\"", "Rural", "\"",
                        ",", "\f", " ", "\"", "confidence", "\"", ":", " ", "\"", "high", "\"", "}">>,
                      <<"{", "\"", "customer_segment", "\"", ":", " ", "\"", "Rural", "\"",
                        ",", "\f", " ", "\"", "confidence", "\"", ":", " ", "0.9", "}">>,
                      <<"{", "\"", "customer_segment", "\"", ":", " ", "\"", "Urban", "\"",
                        ",", " ", "\"", "confidence", "\"", ":", " ", "null", "}">>,
                      <<"{", "\"", "customer_segment", "\"", ":", " ", "\"", "Rur">> } }
          \cup ModelFailures
    /\ segment_pc = "call"
    /\ segmentation = NoSegmentation

\* autonomous_segmentation: without a client, and when the invocation or
\* anything after it raises, the fallback; else the parsed answer, whose
\* agent_status the caller overwrites.
AutonomousSegmentation ==
    /\ segment_pc = "call"
    /\ segmentation' =
          IF ~bedrock_runtime \/ ai_outcome.raised
          THEN fallback_with_process(pincode, income)
          ELSE [parse_agent_response(ai_outcome.text, pincode, income)
                   EXCEPT !.agent_status = "fully_autonomous"]
    /\ segment_pc' = "done"
    /\ UNCHANGED <<pincode, income, bedrock_runtime, ai_outcome>>

(***************************************************************************)
(* 7. The prompt of the analysis (src/models/base_agent.py:56-91).         *)
(***************************************************************************)
analysis_prompt_of_Mutant(agent_id, data) ==
    LET unserializable(v) ==
            v.t = "bytes" \/ \E i \in DOMAIN v.kids : v.kids[i].t = "bytes"
        kept == SelectSeq(data, LAMBDA item :
                    item.k = "document_bytes" \/ ~unserializable(item.v))
        quoted(w) == <<"\"", w, "\"">>
        scalar(v) == IF v.t = "str" THEN <<"\"">> \o v.s \o <<"\"">> ELSE v.s
        elements(v) ==
            LET upto[i \in 0..Len(v.kids)] ==
                    IF i = 0 THEN <<>>
                    ELSE upto[i - 1] \o (IF i = 1 THEN <<>> ELSE <<",", " ">>)
                                     \o scalar(v.kids[i])
            IN  upto[Len(v.kids)]
        dumps(v) == IF v.t = "arr" THEN <<"[">> \o elements(v) \o <<"]">>
                    ELSE scalar(v)
        document_info(v) ==
            <<"{">> \o quoted("has_document") \o <<":", " ", "true", ",", " ">>
                \o quoted("size_bytes")
                \o <<":", " ", ToString(IF v.t = "bytes" THEN Len(v.s) ELSE 0), ",", " ">>
                \o quoted("type") \o <<":", " ">> \o quoted("binary_data")
                \o <<",", " ">> \o quoted("preview") \o <<":", " ", "\"">> \o v.s
                \o <<"\"", "}">>
        member(item) ==
            IF item.k = "document_bytes"
            THEN quoted("document_info") \o <<":", " ">> \o document_info(item.v)
            ELSE quoted(item.k) \o <<":", " ">> \o dumps(item.v)
        members[i \in 0..Len(kept)] ==
            IF i = 0 THEN <<>>
            ELSE members[i - 1] \o (IF i = 1 THEN <<>> ELSE <<",", " ">>)
                                \o member(kept[i])
    IN  <<"You are Agent ", agent_id, " with autonomous decision-making capabilities.",
          "Current Situation:", "{">>
            \o members[Len(kept)]
            \o <<"}", "As an autonomous agent, analyze this situation and determine:">>

\* The analysis_prompt _analyze_situation_autonomously writes for input_data,
\* as a sequence of words.  safe_input_data takes the items of input_data in
\* order: 'document_bytes' becomes 'document_info' (presence, size, type),
\* any other bytes value is skipped, and any other value is kept when
\* json.dumps(v) does not raise, which it does for bytes at any depth.  The
\* prompt holds json.dumps(safe_input_data, indent=2) between its fixed
\* sentences; the white space of the indentation is left out, and so are the
\* sections written from self.goals and self.memory_bank, which input_data
\* does not reach.
analysis_prompt_of(agent_id, data) ==
    LET unserializable(v) ==
            v.t = "bytes" \/ \E i \in DOMAIN v.kids : v.kids[i].t = "bytes"
        kept == SelectSeq(data, LAMBDA item :
                    item.k = "document_bytes" \/ ~unserializable(item.v))
        quoted(w) == <<"\"", w, "\"">>
        scalar(v) == IF v.t = "str" THEN <<"\"">> \o v.s \o <<"\"">> ELSE v.s
        elements(v) ==
            LET upto[i \in 0..Len(v.kids)] ==
                    IF i = 0 THEN <<>>
                    ELSE upto[i - 1] \o (IF i = 1 THEN <<>> ELSE <<",", " ">>)
                                     \o scalar(v.kids[i])
            IN  upto[Len(v.kids)]
        dumps(v) == IF v.t = "arr" THEN <<"[">> \o elements(v) \o <<"]">>
                    ELSE scalar(v)
        document_info(v) ==
            <<"{">> \o quoted("has_document") \o <<":", " ", "true", ",", " ">>
                \o quoted("size_bytes")
                \o <<":", " ", ToString(IF v.t = "bytes" THEN Len(v.s) ELSE 0), ",", " ">>
                \o quoted("type") \o <<":", " ">> \o quoted("binary_data") \o <<"}">>
        member(item) ==
            IF item.k = "document_bytes"
            THEN quoted("document_info") \o <<":", " ">> \o document_info(item.v)
            ELSE quoted(item.k) \o <<":", " ">> \o dumps(item.v)
        members[i \in 0..Len(kept)] ==
            IF i = 0 THEN <<>>
            ELSE members[i - 1] \o (IF i = 1 THEN <<>> ELSE <<",", " ">>)
                                \o member(kept[i])
    IN  <<"You are Agent ", agent_id, " with autonomous decision-making capabilities.",
          "Current Situation:", "{">>
            \o members[Len(kept)]
            \o <<"}", "As an autonomous agent, analyze this situation and determine:">>

\* _analyze_situation_autonomously up to the request: call r writes its
\* prompt.
WriteAnalysisPrompt(r) ==
    /\ prompt_pc[r] = "call"
    /\ analysis_prompt' = [analysis_prompt EXCEPT ![r] =
                              analysis_prompt_of("banking_document_specialist",
                                                 input_data[r])]
    /\ prompt_pc' = [prompt_pc EXCEPT ![r] = "sent"]
    /\ UNCHANGED input_data

(***************************************************************************)
(* Specifications.                                                         *)
(***************************************************************************)
PromptIdle ==
    /\ input_data = <<>>
    /\ analysis_prompt = <<>>
    /\ prompt_pc = <<>>

SegmentIdle ==
    /\ pincode = <<>>
    /\ income = 0
    /\ bedrock_runtime = FALSE
    /\ ai_outcome = Answered(<<>>)
    /\ segment_pc = "idle"
    /\ segmentation = NoSegmentation

RetryIdle ==
    /\ wrapper = "bedrock_api_call_with_retry"
    /\ max_retries = 0
    /\ base_delay = BEDROCK_BASE_DELAY
    /\ attempt = 0
    /\ rw_pc = "idle"
    /\ call_log = <<>>
    /\ sleep_log = <<>>
    /\ rw_result = [kind |-> "running", value |-> <<>>]

ParseIdle ==
    /\ json_str = <<>>
    /\ fallback_dict = ObjVal({})
    /\ embedded = <<>>
    /\ parse_pc = "idle"
    /\ parsed = NotCalled

AgentIdle ==
    /\ script = FreeScript
    /\ handler_class = [a \in SoloActors |-> "TrueAgent"]
    /\ goals = [a \in SoloActors |-> <<>>]
    /\ memory_bank = [a \in SoloActors |-> <<>>]
    /\ current_plan = [a \in SoloActors |-> NoPlan]
    /\ reflection_history = [a \in SoloActors |-> <<>>]
    /\ negotiation_history = [a \in SoloActors |-> <<>>]
    /\ adaptation_count = [a \in SoloActors |-> 0]
    /\ agent_pc = [a \in SoloActors |-> "unused"]
    /\ local = [a \in SoloActors |-> NoLocals]
    /\ process_result = [a \in SoloActors |-> NoResult]
    /\ cycles = [a \in SoloActors |-> 0]

CoordIdle ==
    /\ coord_pc = "unused"
    /\ coord_local = NoCoordLocals
    /\ coordination_result = NoCoordination
    /\ applications = 0

\* One invocation of a retry wrapper.
InitRetry == RetryStart /\ ParseIdle /\ AgentIdle /\ CoordIdle /\ SegmentIdle /\ PromptIdle

NextRetry ==
    \/ BedrockPace /\ UNCHANGED <<parse_vars, agent_vars, coord_vars, segment_vars, prompt_vars>>
    \/ BedrockInvoke /\ UNCHANGED <<parse_vars, agent_vars, coord_vars, segment_vars, prompt_vars>>
    \/ RateLimitedInvoke /\ UNCHANGED <<parse_vars, agent_vars, coord_vars, segment_vars, prompt_vars>>
    \/ RateLimitedPostSleep /\ UNCHANGED <<parse_vars, agent_vars, coord_vars, segment_vars, prompt_vars>>
    \/ Backoff /\ UNCHANGED <<parse_vars, agent_vars, coord_vars, segment_vars, prompt_vars>>

SpecRetry == InitRetry /\ [][NextRetry]_vars

\* One call of safe_json_parse.
InitParse == ParseStart /\ RetryIdle /\ AgentIdle /\ CoordIdle /\ SegmentIdle /\ PromptIdle

NextParse == SafeJsonParse /\ UNCHANGED <<retry_vars, agent_vars, coord_vars, segment_vars, prompt_vars>>

SpecParse == InitParse /\ [][NextParse]_vars

\* One actor called again and again.
InitAgent == AgentStart /\ RetryIdle /\ ParseIdle /\ CoordIdle /\ SegmentIdle /\ PromptIdle

NextAgent ==
    \/ \E a \in Actors : StartCycle(a) /\ UNCHANGED <<retry_vars, parse_vars, coord_vars, segment_vars, prompt_vars>>
    \/ \E a \in Actors : AnalyzeSituation(a) /\ UNCHANGED <<retry_vars, parse_vars, coord_vars, segment_vars, prompt_vars>>
    \/ \E a \in Actors : CreatePlan(a) /\ UNCHANGED <<retry_vars, parse_vars, coord_vars, segment_vars, prompt_vars>>
    \/ \E a \in Actors : ExecuteStep(a) /\ UNCHANGED <<retry_vars, parse_vars, coord_vars, segment_vars, prompt_vars>>
    \/ \E a \in Actors : DecideAdaptation(a) /\ UNCHANGED <<retry_vars, parse_vars, coord_vars, segment_vars, prompt_vars>>
    \/ \E a \in Actors : FinishExecution(a) /\ UNCHANGED <<retry_vars, parse_vars, coord_vars, segment_vars, prompt_vars>>
    \/ \E a \in Actors : ReflectAndLearn(a) /\ UNCHANGED <<retry_vars, parse_vars, coord_vars, segment_vars, prompt_vars>>
    \/ \E a \in Actors : AdaptBehavior(a) /\ UNCHANGED <<retry_vars, parse_vars, coord_vars, segment_vars, prompt_vars>>

SpecAgent == InitAgent /\ [][NextAgent]_vars

\* The coordinator called again and again, and its two actors.
InitCoord == CoordStart /\ RetryIdle /\ ParseIdle /\ SegmentIdle /\ PromptIdle

NextCoord ==
    \/ StartCoordination /\ UNCHANGED <<parse_vars, segment_vars, prompt_vars>>
    \/ NegotiateDocument /\ UNCHANGED <<parse_vars, segment_vars, prompt_vars>>
    \/ NegotiateRisk /\ UNCHANGED <<parse_vars, segment_vars, prompt_vars>>
    \/ FacilitateAndDispatch /\ UNCHANGED <<parse_vars, segment_vars, prompt_vars>>
    \/ SequentialRisk /\ UNCHANGED <<parse_vars, segment_vars, prompt_vars>>
    \/ SequentialFinished /\ UNCHANGED <<parse_vars, segment_vars, prompt_vars>>
    \/ ParallelFinished /\ UNCHANGED <<parse_vars, segment_vars, prompt_vars>>
    \/ NegotiateCollaboration /\ UNCHANGED <<parse_vars, segment_vars, prompt_vars>>
    \/ NegotiatedFinished /\ UNCHANGED <<parse_vars, segment_vars, prompt_vars>>
    \/ ProcessingFailed /\ UNCHANGED <<parse_vars, segment_vars, prompt_vars>>
    \/ CancelStray /\ UNCHANGED <<parse_vars, segment_vars, prompt_vars>>
    \/ FinishCoordination /\ UNCHANGED <<parse_vars, segment_vars, prompt_vars>>
    \/ \E a \in Actors : AnalyzeSituation(a) /\ UNCHANGED <<retry_vars, parse_vars, coord_vars, segment_vars, prompt_vars>>
    \/ \E a \in Actors : CreatePlan(a) /\ UNCHANGED <<retry_vars, parse_vars, coord_vars, segment_vars, prompt_vars>>
    \/ \E a \in Actors : ExecuteStep(a) /\ UNCHANGED <<retry_vars, parse_vars, coord_vars, segment_vars, prompt_vars>>
    \/ \E a \in Actors : DecideAdaptation(a) /\ UNCHANGED <<retry_vars, parse_vars, coord_vars, segment_vars, prompt_vars>>
    \/ \E a \in Actors : FinishExecution(a) /\ UNCHANGED <<retry_vars, parse_vars, coord_vars, segment_vars, prompt_vars>>
    \/ \E a \in Actors : ReflectAndLearn(a) /\ UNCHANGED <<retry_vars, parse_vars, coord_vars, segment_vars, prompt_vars>>
    \/ \E a \in Actors : AdaptBehavior(a) /\ UNCHANGED <<retry_vars, parse_vars, coord_vars, segment_vars, prompt_vars>>
    \/ BedrockPace /\ UNCHANGED <<parse_vars, agent_vars, coord_vars, segment_vars, prompt_vars>>
    \/ BedrockInvoke /\ UNCHANGED <<parse_vars, agent_vars, coord_vars, segment_vars, prompt_vars>>
    \/ Backoff /\ UNCHANGED <<parse_vars, agent_vars, coord_vars, segment_vars, prompt_vars>>

SpecCoord == InitCoord /\ [][NextCoord]_vars

\* The same with the scheduling of the event loop: a call of
\* autonomous_coordination that can take a step takes one, every remote call
\* returning or failing.  When the next call is made is up to the caller.
SpecCoordFair == SpecCoord /\ WF_vars(NextCoord /\ applications' = applications)

\* One call of autonomous_segmentation.
InitSegment ==
    SegmentStart /\ RetryIdle /\ ParseIdle /\ AgentIdle /\ CoordIdle /\ PromptIdle

NextSegment ==
    AutonomousSegmentation
        /\ UNCHANGED <<retry_vars, parse_vars, agent_vars, coord_vars, prompt_vars>>

SpecSegment == InitSegment /\ [][NextSegment]_vars

\* Two calls of _analyze_situation_autonomously, each with an input_data of
\* its own: the items present are taken in one order, a value is a string,
\* bytes, a list of bytes or a list of strings, and no item has the key
\* 'document_info'.
InitPrompt ==
    /\ LET bytes(s) == [t |-> "bytes", s |-> s, kids |-> <<>>, members |-> {}]
           absent == LitVal("absent")
           payloads == {bytes(<<"0x41">>), bytes(<<"0x42">>), bytes(<<"0x41", "0x42">>)}
           inputs ==
               { SelectSeq(<< [k |-> "customer_id", v |-> a],
                              [k |-> "document_bytes", v |-> b],
                              [k |-> "signature", v |-> c],
                              [k |-> "attachments", v |-> d] >>,
                           LAMBDA item : item.v # absent) :
                   a \in {absent, Str("c1")},
                   b \in {absent, Str("scan.png")} \cup payloads,
                   c \in {absent, bytes(<<"0x41">>), bytes(<<"0x42">>)},
                   d \in {absent, ArrVal(<<bytes(<<"0x41">>)>>),
                          ArrVal(<<bytes(<<"0x42">>)>>), ArrVal(<<Str("a"), Str("b")>>)} }
       IN  input_data \in [1..2 -> inputs]
    /\ analysis_prompt = [r \in 1..2 |-> <<>>]
    /\ prompt_pc = [r \in 1..2 |-> "call"]
    /\ RetryIdle /\ ParseIdle /\ AgentIdle /\ CoordIdle /\ SegmentIdle

NextPrompt ==
    \E r \in DOMAIN prompt_pc :
        WriteAnalysisPrompt(r)
            /\ UNCHANGED <<retry_vars, parse_vars, agent_vars, coord_vars, segment_vars>>

SpecPrompt == InitPrompt /\ [][NextPrompt]_vars

(***************************************************************************)
(* Claims about the retry wrappers (checked under SpecRetry).              *)
(***************************************************************************)
RetryDone == rw_pc \in {"returned", "raised"}

\* The error text names a throttling error (the claims' own reading of it).
ThrottlingText(e) ==
    \E i \in 1..Len(e) : e[i] \in {"ThrottlingException", "TooManyRequestsException"}

AllThrottled == \A i \in 1..Len(call_log) : ThrottlingText(call_log[i])

BackoffSleeps == SelectSeq(sleep_log, LAMBDA s : s.kind = "backoff")

RECURSIVE GeometricSum(_, _)
GeometricSum(b, n) == IF n = 0 THEN 0 ELSE GeometricSum(b, n - 1) + b * (2 ^ (n - 1))

\* C1: one invocation of a retry wrapper makes at most max_retries + 1 remote
\* calls; when every attempt is throttled it ends only after exactly
\* max_retries + 1 calls, by raising the last throttling error; a successful
\* call is the last call and its result is what is returned.
C1_CallBudget ==
    /\ Len(call_log) <= max_retries + 1
    /\ (RetryDone /\ AllThrottled) =>
          /\ Len(call_log) = max_retries + 1
          /\ rw_result = [kind |-> "raised", value |-> call_log[Len(call_log)]]
    /\ \A i \in 1..Len(call_log) :
          call_log[i] = RESPONSE =>
             /\ i = Len(call_log)
             /\ rw_pc \in {"post", "returned"}
             /\ rw_pc = "returned" =>
                   rw_result = [kind |-> "returned", value |-> RESPONSE]

C1_Witness ==
    /\ rw_pc = "raised"
    /\ max_retries = 3
    /\ Len(call_log) = 4
    /\ AllThrottled

\* C2: an error that is not a throttling error is raised to the caller at
\* once: it is the last remote call, no sleep follows it, and when it is the
\* error of the first attempt the invocation made exactly one call.
C2_FatalNotRetried ==
    \A i \in 1..Len(call_log) :
       (call_log[i] # RESPONSE /\ ~ThrottlingText(call_log[i])) =>
          /\ i = Len(call_log)
          /\ rw_result = [kind |-> "raised", value |-> call_log[i]]
          /\ \A k \in 1..Len(sleep_log) : sleep_log[k].calls < i
          /\ (i = 1 => Len(call_log) = 1)

C2_Witness ==
    /\ rw_pc = "raised"
    /\ max_retries = 3
    /\ Len(call_log) = 1
    /\ ~ThrottlingText(call_log[1])
    /\ BackoffSleeps = <<>>

\* C3: the backoff sleep after the throttled attempt i is baseDelay * 2^i and
\* exists only for i < max_retries; when every attempt was throttled the
\* backoff sleeps are those of attempts 0..max_retries-1 and their total is
\* the sum of baseDelay * 2^i over them.
BaseDelayOfWrapper ==
    IF wrapper = "bedrock_api_call_with_retry" THEN BEDROCK_BASE_DELAY ELSE base_delay

C3_BackoffSchedule ==
    /\ \A k \in 1..Len(BackoffSleeps) :
          /\ BackoffSleeps[k].attempt = k - 1
          /\ BackoffSleeps[k].attempt < max_retries
          /\ BackoffSleeps[k].calls = k
          /\ BackoffSleeps[k].dur = BaseDelayOfWrapper * (2 ^ (k - 1))
    /\ (rw_pc = "raised" /\ AllThrottled) =>
          /\ Len(BackoffSleeps) = max_retries
          /\ SumSeq([k \in 1..Len(BackoffSleeps) |-> BackoffSleeps[k].dur])
                = GeometricSum(BaseDelayOfWrapper, max_retries)

C3_Witness ==
    /\ rw_pc = "raised"
    /\ AllThrottled
    /\ max_retries = 3
    /\ Len(BackoffSleeps) = 3
    /\ BackoffSleeps[3].dur = 4 * BaseDelayOfWrapper

(***************************************************************************)
(* Claims about safe_json_parse (checked under SpecParse).                 *)
(***************************************************************************)
\* C4: a text that is valid JSON is returned as json.loads reads it, by the
\* first attempt: neither the repair pass nor the fallback touches it.
C4_ValidInputVerbatim ==
    (parse_pc = "done" /\ json_loads(json_str).ok) =>
        parsed = Returned(json_loads(json_str).val, "direct")

C4_Witness ==
    /\ parse_pc = "done"
    /\ json_loads(json_str).ok
    /\ parsed.value.t = "obj"
    /\ Cardinality(parsed.value.members) = 2
    /\ fallback_dict # ObjVal({})

C6_MappingOrFallback ==
    parse_pc = "done" =>
        \/ parsed.value = fallback_dict
        \/ /\ parsed.value.t = "obj"
           /\ FindFirst(json_str, {"{"}, 1) # 0
           /\ FindLast(json_str, {"}"}, Len(json_str)) > FindFirst(json_str, {"{"}, 1)

\* C7: for bracket-free prose, one valid object, bracket-free prose,
\* safe_json_parse returns the strict parse of the object.
C7_WrappedObjectRecovered ==
    (parse_pc = "done" /\ embedded # <<>>) =>
        /\ ~parsed.raised
        /\ parsed.value = json_loads(embedded).val

(***************************************************************************)
(* Claims about the actor cycle (checked under SpecAgent).                 *)
(***************************************************************************)
\* The number of memories an actor has appended so far: every append to
\* memory_bank comes with one to reflection_history, which is never cut.
Appended(a) == Len(reflection_history[a])

\* C8: the memory_bank of an actor holds at most 20 records, newest last;
\* they are the most recently appended ones in the order of their appending;
\* the append that takes the length to 21 cuts it to the 15 most recent, so
\* that after 21 appends from empty the length is 15.
C8_MemoryCap ==
    \A a \in Actors :
       LET bank == memory_bank[a]
           n == Appended(a)
       IN  /\ Len(bank) <= 20
           /\ \A i \in 1..Len(bank) : bank[i].timestamp = n - Len(bank) + i
           /\ Len(bank) = IF n <= 20 THEN n ELSE 15 + ((n - 21) % 6)
           /\ n = 21 => Len(bank) = 15

C8_Witness ==
    \E a \in Actors :
       /\ Appended(a) = 21
       /\ agent_pc[a] = "adapt_behavior"
       /\ Len(memory_bank[a]) = 15
       /\ memory_bank[a][1].timestamp = 7
       /\ memory_bank[a][15].timestamp = 21

\* C9: _adapt_behavior never decreases the priority of a goal nor a
\* 'confidence' entry of its success_criteria, and a priority it changes is
\* at most 10 afterwards.
C9_AdaptationMonotonic ==
    [][\A a \in Actors :
          agent_pc[a] = "adapt_behavior" =>
             \A i \in DOMAIN goals[a] :
                /\ goals'[a][i].priority >= goals[a][i].priority
                /\ goals'[a][i].priority # goals[a][i].priority =>
                      goals'[a][i].priority <= 10
                /\ "confidence" \in DOMAIN goals[a][i].success_criteria =>
                      goals'[a][i].success_criteria.confidence
                         >= goals[a][i].success_criteria.confidence]_vars

(***************************************************************************)
(* Claims about the coordinator (checked under SpecCoord).                 *)
(***************************************************************************)
\* The number a numeric token stands for, in thousandths.
THOUSANDTHS == [n \in DIGITS |->
                   CASE n = "0.1" -> 100 [] n = "0.2" -> 200 [] n = "0.3" -> 300
                     [] n = "0.4" -> 400 [] n = "0.5" -> 500 [] n = "0.6" -> 600
                     [] n = "0.9" -> 900
                     [] OTHER -> 1000]

\* C10: when the synthesis invocation raised, by a fatal error or by a
\* throttling error after the retries ran out, autonomous_coordination does
\* not raise: it returns a result whose final_decision has the final_status
\* "manual_review" and a synthesis_confidence of at most 0.3.
C10_SynthesisFailureManualReview ==
    rw_pc = "raised" =>
       /\ coord_pc \in {"synthesis", "returned"}
       /\ coord_pc = "returned" =>
             LET final_decision == coordination_result.final_decision
             IN  /\ final_decision.t = "obj"
                 /\ \E m \in final_decision.members :
                       m.k = <<"final_status">> /\ m.v = StrVal(<<"manual_review">>)
                 /\ \E m \in final_decision.members :
                       /\ m.k = <<"synthesis_confidence">>
                       /\ m.v.t = "num"
                       /\ THOUSANDTHS[m.v.s[1]] <= 300

C10_Witness ==
    /\ coord_pc = "returned"
    /\ rw_result.kind = "raised"
    /\ Len(call_log) = 4
    /\ AllThrottled
    /\ coordination_result.agent_results.processing_type = "parallel"
    /\ coordination_result.final_decision = COORD_LITERALS.SYNTHESIS_FAILED

\* The texts from which no JSON verdict can be recovered.
NoVerdictTexts ==
    {MODEL_TEXT.PROSE, MODEL_TEXT.EMPTY, MODEL_TEXT.SYNTHESIS_TRUNCATED}

\* The mapping d has the value v under the key.
Has(d, key, v) == d.t = "obj" /\ \E m \in d.members : m.k = <<key>> /\ m.v = v

\* C11: when the synthesis failed, because its invocation raised or because
\* the model answered with a text from which no JSON verdict can be recovered
\* (prose without brackets, the empty text, truncated JSON), the final
\* decision autonomous_coordination returns has final_status "manual_review"
\* and synthesis_confidence 0.3.
C11_FailedSynthesisManualReview ==
    (/\ coord_pc = "returned"
     /\ \/ coord_local.synthesis_response.raised
        \/ coord_local.synthesis_response.text \in NoVerdictTexts) =>
       /\ Has(coordination_result.final_decision, "final_status",
              StrVal(<<"manual_review">>))
       /\ Has(coordination_result.final_decision, "synthesis_confidence",
              NumVal(<<"0.3">>))


(***************************************************************************)
(* Claims about parallel processing (checked under SpecCoord).             *)
(***************************************************************************)
\* What the actor a owns, and what its cycle has computed so far.
Owned(a) ==
    <<goals[a], memory_bank[a], current_plan[a], adaptation_count[a],
      reflection_history[a], negotiation_history[a], process_result[a]>>

\* C12: in parallel mode each actor's cycle ends as it does when the actor
\* runs alone, by returning its result or raising its own error with the
\* state the whole cycle leaves, never cut short by what the other actor
\* did; and no step of one actor's cycle writes what the other actor owns.
C12_ParallelAsAlone ==
    /\ [](\A a \in AGENTS : agent_pc[a] # "cancelled")
    /\ [][coord_pc = "parallel" =>
            \A a \in AGENTS :
                (agent_pc'[a] = agent_pc[a] /\ local'[a] = local[a]) =>
                    Owned(a)' = Owned(a)]_vars

(***************************************************************************)
(* Claims about the actor cycle (checked under SpecAgent).                 *)
(***************************************************************************)
\* The order of the phases of one autonomous_process call: where a call
\* starts, and which position follows which.
PhaseOrder ==
    { <<"idle", "analyze">>, <<"returned", "analyze">>, <<"raised", "analyze">>,
      <<"analyze", "plan">>, <<"plan", "execute">>,
      <<"execute", "should_adapt">>, <<"should_adapt", "execute">>,
      <<"execute", "reflect">>, <<"reflect", "adapt_behavior">>,
      <<"adapt_behavior", "returned">> }

\* C13: within one autonomous_process call the phases run exactly once each
\* and strictly in the order ANALYZE, PLAN, EXECUTE, REFLECT,
\* ADAPT_BEHAVIOR, and then the result is returned; the only repetition is
\* the adapt decision taken after a step inside EXECUTE.
C13_PhaseOrder ==
    [][\A a \in Actors :
          agent_pc'[a] # agent_pc[a] => <<agent_pc[a], agent_pc'[a]>> \in PhaseOrder]_vars

\* The answers that are what the prompt of their kind asks for.
WellFormed ==
    [analyze |-> {MODEL_TEXT.ANALYSIS_OK},
     plan |-> {MODEL_TEXT.PLAN_ONE, MODEL_TEXT.PLAN_TWO},
     choose_strategy |-> {MODEL_TEXT.CHOICE_STRATEGY},
     choose_model |-> {MODEL_TEXT.CHOICE_MODEL},
     adapt |-> {MODEL_TEXT.ADAPT_YES, MODEL_TEXT.ADAPT_NO},
     reflect |-> {MODEL_TEXT.REFLECT_ESCALATE, MODEL_TEXT.REFLECT_PLAIN}]

\* The model calls of the actor's cycle so far, and those of a kind that
\* failed upstream.
CallsOf(a) == {local[a].calls[i] : i \in 1..Len(local[a].calls)}
FailedCall(a, kind) == \E c \in CallsOf(a) : c.kind = kind /\ c.outcome.raised

\* Only upstream failures went wrong: every call of the cycle failed or
\* was answered with what it asked for.
OnlyUpstreamFailures(a) ==
    \A c \in CallsOf(a) : c.outcome.raised \/ c.outcome.text \in WellFormed[c.kind]

\* C14: whatever model calls of a cycle fail upstream (fatal error or
\* throttling to the end of the retry budget, any subset of the calls, all of
\* them included), no error leaves autonomous_process and each failing phase
\* has put its static fallback value in place of the answer.
C14_UpstreamFailuresAbsorbed ==
    \A a \in Actors :
        OnlyUpstreamFailures(a) =>
            /\ agent_pc[a] # "raised"
            /\ FailedCall(a, "analyze") =>
                   local[a].situation_analysis = AGENT_LITERALS.FALLBACK_ANALYSIS
            /\ FailedCall(a, "plan") => local[a].plan = FallbackPlan(a)
            /\ FailedCall(a, "reflect") =>
                   local[a].learning_insight = AGENT_LITERALS.REFLECTION_FAILED
            /\ agent_pc[a] = "returned" =>
                   /\ {"analyze", "plan", "reflect"} \subseteq {c.kind : c \in CallsOf(a)}
                   /\ process_result[a].situation_analysis = local[a].situation_analysis
                   /\ process_result[a].learning_insight = local[a].learning_insight

\* A document actor has returned from a cycle in which the plan was the only
\* call that did not fail: the analysis, the choice of strategy inside the
\* step, the adapt decision and the reflection all failed.
C14_Witness ==
    \E a \in Actors :
        /\ agent_pc[a] = "returned"
        /\ [i \in 1..Len(local[a].calls) |-> local[a].calls[i].kind] =
               <<"analyze", "plan", "choose_strategy", "adapt", "reflect">>
        /\ \A c \in CallsOf(a) : c.kind # "plan" <=> c.outcome.raised
        /\ OnlyUpstreamFailures(a)

\* The answers the claim speaks of: prose with no JSON, the empty text, and
\* JSON objects that lack the keys the phase reads.
Malformed ==
    {MODEL_TEXT.PROSE, MODEL_TEXT.EMPTY, MODEL_TEXT.ADAPT_NO_REASON,
     MODEL_TEXT.STRATEGY_UNNAMED, MODEL_TEXT.PLAN_NO_ACTION,
     MODEL_TEXT.REFLECT_EMPTY}

\* C15: whatever text the model returns in a phase of autonomous_process
\* (prose, the empty text, a JSON object without the expected keys), the
\* phase completes with recovered or fallback data and does not raise, the
\* adapt decision taken in EXECUTE after a step scoring below 0.5 included.
C15_MalformedTextNeverRaises ==
    \A a \in Actors :
        (\A c \in CallsOf(a) :
            \/ c.outcome.raised
            \/ c.outcome.text \in WellFormed[c.kind] \cup Malformed)
        => agent_pc[a] # "raised"

(***************************************************************************)
(* Claims about the coordinator's choice of processing (SpecCoord).        *)
(***************************************************************************)
\* C16: whatever text the model returns to the coordinator's request for a
\* strategy (prose, the empty text, a JSON object without 'strategy'),
\* autonomous_coordination does not raise: the answer is resolved to the
\* fallback mapping, whose strategy is sequential, and the processing goes on
\* to a coordination result.
C16_MalformedStrategyResolved ==
    [][(/\ coord_pc = "facilitate"
        /\ coord_pc' # "facilitate"
        /\ ~coord_local'.strategy_response.raised
        /\ coord_local'.strategy_response.text \in
              {MODEL_TEXT.PROSE, MODEL_TEXT.EMPTY, MODEL_TEXT.STRATEGY_UNNAMED})
       => /\ coord_pc' = "sequential_document"
          /\ coord_local'.coordination_strategy = COORD_LITERALS.DEFAULT_STRATEGY]_vars

(***************************************************************************)
(* Claims about customer segmentation (checked under SpecSegment).         *)
(***************************************************************************)
\* The pincode of the call starts with one of the listed urban prefixes.
UrbanPrefixed ==
    \E prefix \in URBAN_PATTERNS :
        Len(pincode) >= Len(prefix) /\ SubSeq(pincode, 1, Len(prefix)) = prefix

\* C17: for a pincode that starts with a listed urban prefix,
\* autonomous_segmentation returns the segment Urban whatever the income and
\* whatever the model call gave: an answer naming any segment, an answer that
\* cannot be parsed, a failed invocation, or no model client at all.
C17_UrbanPrefixIsUrban ==
    (segment_pc = "done" /\ UrbanPrefixed) => segmentation.customer_segment = "Urban"

\* The call with a Gurgaon pincode and the lowest income has returned Urban
\* although the model answered Rural.
C17_Witness ==
    /\ segment_pc = "done"
    /\ pincode = <<"1", "2", "2", "0", "0", "1">>
    /\ income = 0
    /\ bedrock_runtime
    /\ ai_outcome = Answered(SegmentAnswer("Rural", "0.9"))
    /\ segmentation.customer_segment = "Urban"
    /\ segmentation.classification_method = "autonomous_ai_analysis"

\* C18: for a pincode that starts with a listed urban prefix and every
\* answer of the model (any of the three segments with any confidence in
\* [0, 1], or an answer that cannot be parsed), the confidence that
\* autonomous_segmentation returns is at least 0.85.
C18_UrbanPrefixConfidence ==
    (/\ segment_pc = "done"
     /\ UrbanPrefixed
     /\ bedrock_runtime
     /\ ~ai_outcome.raised) => segmentation.confidence >= 85

\* C19: every cycle that completes its reflection appends exactly one new
\* memory record to the actor's memory (before trimming); the record's
\* success_score is the cycle's overall_success and its insight is the first
\* key learning of the cycle's insight, or the placeholder when the insight
\* has no key learnings.  This is to hold whether the reflection call
\* succeeds, fails, or answers an insight without key learnings.
C19_OneMemoryPerCycle ==
    [][\A a \in Actors :
          (agent_pc[a] = "reflect" /\ agent_pc'[a] = "adapt_behavior") =>
              \E m \in {memory_bank'[a][i] : i \in DOMAIN memory_bank'[a]} :
                  /\ memory_bank'[a] = TrimMemory(Append(memory_bank[a], m))
                  /\ m.success_score = local[a].execution_result.overall_success
                  /\ LET insight == local'[a].learning_insight
                         learnings == IF insight.t = "obj" /\ HasKey(insight, "key_learnings")
                                      THEN Lookup(insight, "key_learnings")
                                      ELSE ArrVal(<<>>)
                     IN  m.learned_insight =
                             IF learnings.t = "arr" /\ learnings.kids # <<>>
                             THEN learnings.kids[1]
                             ELSE StrVal(<<"No", " ", "specific", " ", "learning">>)]_vars

\* The same, for the cycles whose reflection call answered and whose insight
\* names at least one key learning.
C19_OneMemoryWhenLearned ==
    [][\A a \in Actors :
          (/\ agent_pc[a] = "reflect" /\ agent_pc'[a] = "adapt_behavior"
           /\ local'[a].learning_insight # AGENT_LITERALS.REFLECTION_FAILED) =>
              /\ memory_bank'[a] # <<>>
              /\ memory_bank'[a] =
                     TrimMemory(Append(memory_bank[a],
                                       memory_bank'[a][Len(memory_bank'[a])]))
              /\ memory_bank'[a][Len(memory_bank'[a])].success_score =
                     local[a].execution_result.overall_success]_vars

\* An actor is in a phase of its cycle.
InPhase(a) ==
    agent_pc[a] \in {"analyze", "plan", "execute", "should_adapt", "reflect",
                     "adapt_behavior"}

\* C20: in sequential mode the document actor's cycle has run its five phases
\* and returned before the risk actor's cycle starts, the risk actor is
\* called with the task and the document actor's result, and no phase of the
\* risk actor overlaps a phase of the document actor.
C20_SequentialOrder ==
    /\ [](coord_pc \in {"sequential_document", "sequential_risk"} =>
             /\ ~(InPhase("document") /\ InPhase("risk"))
             /\ coord_pc = "sequential_document" => ~InPhase("risk")
             /\ coord_pc = "sequential_risk" =>
                    /\ agent_pc["document"] = "returned"
                    /\ coord_local.agent_results.document_result =
                           process_result["document"]
                    /\ process_result["document"].learning_insight =
                           local["document"].learning_insight
                    /\ {"analyze", "plan", "reflect"} \subseteq
                           {c.kind : c \in CallsOf("document")})
    /\ [][(coord_pc \in {"sequential_document", "sequential_risk"}
           /\ ~InPhase("risk") /\ InPhase("risk")') =>
              /\ coord_pc = "sequential_document"
              /\ agent_pc["document"] = "returned"
              /\ agent_pc'["risk"] = "analyze"
              /\ local'["risk"] = NoLocals
              /\ coord_local'.agent_results.document_result =
                     process_result["document"]]_vars

\* The risk actor reflects in sequential mode, called with the result of the
\* document actor's completed cycle.
C20_Witness ==
    /\ coord_pc = "sequential_risk"
    /\ agent_pc["risk"] = "reflect"
    /\ agent_pc["document"] = "returned"
    /\ cycles = [document |-> 1, risk |-> 1]
    /\ coord_local.agent_results.document_result = process_result["document"]
    /\ process_result["document"].execution_result # NoExecution

\* What one negotiation round asked by the document actor of the risk actor
\* can return.
NegotiationOutcomes ==
    {negotiate_with_agent("document", "risk", "processing_collaboration", o).strategy :
        o \in ModelAnswers("negotiate")}

\* C21: in negotiated mode the document actor's cycle runs and returns, then
\* one negotiation round is asked by the document actor of the risk actor,
\* then the risk actor's cycle runs with the negotiation outcome and the
\* document actor's result; the risk actor is in no phase before the round
\* has finished, and the round happens once.
C21_NegotiatedOrder ==
    /\ [](coord_pc \in {"negotiated_document", "negotiated_risk"} =>
             /\ ~(InPhase("document") /\ InPhase("risk"))
             /\ coord_pc = "negotiated_document" =>
                    /\ ~InPhase("risk")
                    /\ coord_local.agent_results.agent_interactions = <<>>
             /\ coord_pc = "negotiated_risk" =>
                    /\ agent_pc["document"] = "returned"
                    /\ Len(coord_local.agent_results.agent_interactions) = 1
                    /\ coord_local.agent_results.agent_interactions[1] \in NegotiationOutcomes
                    /\ coord_local.agent_results.document_result =
                           process_result["document"]
                    /\ {"analyze", "plan", "reflect"} \subseteq
                           {c.kind : c \in CallsOf("document")})
    /\ [][(coord_pc \in {"negotiated_document", "negotiated_risk"}
           /\ ~InPhase("risk") /\ InPhase("risk")') =>
              /\ coord_pc = "negotiated_document"
              /\ agent_pc["document"] = "returned"
              /\ agent_pc'["risk"] = "analyze"
              /\ coord_local'.agent_results.agent_interactions # <<>>
              /\ negotiation_history'["risk"] = negotiation_history["risk"]
              /\ Len(negotiation_history'["document"]) <=
                     Len(negotiation_history["document"]) + 1]_vars

\* The risk actor reflects in negotiated mode after the round the document
\* actor asked, which is on the document actor's record.
C21_Witness ==
    /\ coord_pc = "negotiated_risk"
    /\ agent_pc["risk"] = "reflect"
    /\ agent_pc["document"] = "returned"
    /\ Len(coord_local.agent_results.agent_interactions) = 1
    /\ Len(negotiation_history["document"]) = 2
    /\ negotiation_history["document"][2].topic = "processing_collaboration"
    /\ negotiation_history["document"][2].strategy =
           coord_local.agent_results.agent_interactions[1]

\* C22: the processing autonomous_coordination executes is one of sequential,
\* parallel and negotiated: the one the model's answer names when it names
\* one of the three, and sequential when the call fails, when the answer
\* cannot be parsed, and when it names anything else or nothing.
C22_ModeExecuted ==
    [][(coord_pc = "facilitate" /\ coord_pc' # "facilitate") =>
          LET o == coord_local'.strategy_response
          IN  coord_pc' =
                  IF ~o.raised /\ o.text = MODEL_TEXT.STRATEGY_PARALLEL
                  THEN "parallel"
                  ELSE IF ~o.raised /\ o.text = MODEL_TEXT.STRATEGY_NEGOTIATED
                  THEN "negotiated_document"
                  ELSE "sequential_document"]_vars

\* The same, for the failed call and for the answers that are a JSON object
\* naming a strategy.
C22_ModeExecutedWhenNamed ==
    [][(/\ coord_pc = "facilitate" /\ coord_pc' # "facilitate"
        /\ \/ coord_local'.strategy_response.raised
           \/ coord_local'.strategy_response.text \in
                 {MODEL_TEXT.STRATEGY_SEQUENTIAL, MODEL_TEXT.STRATEGY_PARALLEL,
                  MODEL_TEXT.STRATEGY_NEGOTIATED, MODEL_TEXT.STRATEGY_COMPETITIVE}) =>
          LET o == coord_local'.strategy_response
          IN  coord_pc' =
                  IF ~o.raised /\ o.text = MODEL_TEXT.STRATEGY_PARALLEL
                  THEN "parallel"
                  ELSE IF ~o.raised /\ o.text = MODEL_TEXT.STRATEGY_NEGOTIATED
                  THEN "negotiated_document"
                  ELSE "sequential_document"]_vars

\* The actor that asks a negotiation in the step, the actor it asks and the
\* topic: the two rounds of _negotiate_coordination_strategy and the round of
\* _negotiated_processing.
NegotiationSteps ==
    {[from |-> "negotiate_document", to |-> "negotiate_risk", a |-> "document",
      b |-> "risk", b_id |-> "inclusive_risk_specialist",
      topic |-> "coordination_strategy"],
     [from |-> "negotiate_risk", to |-> "facilitate", a |-> "risk",
      b |-> "document", b_id |-> "banking_document_specialist",
      topic |-> "coordination_strategy"],
     [from |-> "negotiated_document", to |-> "negotiated_risk", a |-> "document",
      b |-> "risk", b_id |-> "inclusive_risk_specialist",
      topic |-> "processing_collaboration"]}

\* The negotiation changes nothing of the actor asked, and of the asking
\* actor neither the goals, the memory nor the plan.
NegotiationFrame(n) ==
    /\ goals' = goals /\ memory_bank' = memory_bank /\ current_plan' = current_plan
    /\ reflection_history'[n.b] = reflection_history[n.b]
    /\ negotiation_history'[n.b] = negotiation_history[n.b]
    /\ adaptation_count'[n.b] = adaptation_count[n.b]

\* C23: every call a.negotiate_with_agent(b, topic, context) appends exactly
\* one record {with_agent = b's id, topic, strategy, timestamp} to a's
\* negotiation_history, whether the model call succeeds or fails, and changes
\* nothing in b nor a's goals, memory and plan; after the two rounds of one
\* coordination each actor has exactly one more record.
C23_NegotiationRecorded ==
    [][\A n \in NegotiationSteps :
          (coord_pc = n.from /\ coord_pc' = n.to) =>
              /\ Len(negotiation_history'[n.a]) = Len(negotiation_history[n.a]) + 1
              /\ SubSeq(negotiation_history'[n.a], 1, Len(negotiation_history[n.a])) =
                     negotiation_history[n.a]
              /\ negotiation_history'[n.a][Len(negotiation_history'[n.a])].with_agent = n.b_id
              /\ negotiation_history'[n.a][Len(negotiation_history'[n.a])].topic = n.topic
              /\ NegotiationFrame(n)]_vars

\* The frame alone, and the record of the calls that answered.
C23_NegotiationFrameOnly ==
    [][\A n \in NegotiationSteps :
          (coord_pc = n.from /\ coord_pc' = n.to) =>
              /\ NegotiationFrame(n)
              /\ \/ negotiation_history'[n.a] = negotiation_history[n.a]
                 \/ /\ Len(negotiation_history'[n.a]) = Len(negotiation_history[n.a]) + 1
                    /\ negotiation_history'[n.a][Len(negotiation_history'[n.a])].with_agent = n.b_id
                    /\ negotiation_history'[n.a][Len(negotiation_history'[n.a])].topic = n.topic]_vars

\* The number of the indicators of autonomy that hold of actor a.
Indicators(a) ==
    (IF memory_bank[a] # <<>> THEN 1 ELSE 0)
    + (IF adaptation_count[a] > 0 THEN 1 ELSE 0)
    + (IF negotiation_history[a] # <<>> THEN 1 ELSE 0)
    + (IF reflection_history[a] # <<>> THEN 1 ELSE 0)

\* C24: the system autonomy score autonomous_coordination returns is k/8,
\* k the number of the eight indicators (memory, adaptations, negotiations,
\* reflections of each of the two actors being nonzero) that hold of the
\* actors' state after the coordination; it lies between 0 and 1.  The score
\* is in thousandths.
C24_AutonomyScore ==
    coord_pc = "returned" =>
        LET score == coordination_result.autonomy_metrics.system_autonomy_score
        IN  /\ 8 * score = 1000 * (Indicators("document") + Indicators("risk"))
            /\ score >= 0 /\ score <= 1000

\* A coordination returned with seven of the eight indicators holding: one
\* of the two actors adapted and the other did not.
C24_Witness ==
    /\ coord_pc = "returned"
    /\ coordination_result.autonomy_metrics.system_autonomy_score = 875
    /\ \E a \in AGENTS : adaptation_count[a] = 0
    /\ \E a \in AGENTS : adaptation_count[a] > 0
    /\ \A a \in AGENTS : memory_bank[a] # <<>> /\ negotiation_history[a] # <<>>

(***************************************************************************)
(* Claims about the pacing of the retry wrappers (checked under SpecRetry). *)
(***************************************************************************)
\* C26: in rate_limited_api_call every remote call, the first and every
\* retry, is immediately preceded by the fixed pacing sleep: the last sleep
\* before the call is the pacing delay, made after the call before it.
C26_PacedBeforeCall ==
    wrapper = "rate_limited_api_call" =>
        \A i \in 1..Len(call_log) :
            \E k \in 1..Len(sleep_log) :
                /\ sleep_log[k].calls = i - 1
                /\ sleep_log[k].kind = "post"
                /\ sleep_log[k].dur = POST_CALL_DELAY
                /\ \A j \in (k + 1)..Len(sleep_log) : sleep_log[j].calls >= i

\* What the wrapper does: its one fixed sleep follows the successful call
\* and every call before it is preceded by no sleep but the backoff.
C26_PacedAfterCall ==
    wrapper = "rate_limited_api_call" =>
        \A k \in 1..Len(sleep_log) :
            sleep_log[k].kind = "post" =>
                /\ k = Len(sleep_log)
                /\ sleep_log[k].calls = Len(call_log)
                /\ call_log[Len(call_log)] = RESPONSE

\* The sleeps made while the call log held n calls, in order.
SleepsAfter(n) == SelectSeq(sleep_log, LAMBDA s : s.calls = n)

\* Sum of 1.5 + 0.5*k over k = 0..n, in half seconds.
PacingSum(n) == SumSeq([k \in 1..(n + 1) |-> 3 + (k - 1)])

\* C27: in bedrock_api_call_with_retry the remote call of the attempt k
\* (counted from 0) is immediately preceded by a pacing sleep of 1.5 + 0.5*k
\* seconds; a throttled attempt k < max_retries is followed by a backoff
\* sleep of 3*2^k seconds, made before the next pacing sleep; with every
\* attempt throttled the sleeps total the sum of 1.5 + 0.5*k over
\* k = 0..max_retries plus the sum of 3*2^k over k = 0..max_retries-1.
\* Durations are in half seconds.
C27_BedrockSleepSchedule ==
    wrapper = "bedrock_api_call_with_retry" =>
        /\ \A i \in 1..Len(call_log) :
              LET before == SleepsAfter(i - 1)
              IN  /\ before # <<>>
                  /\ before[Len(before)] =
                        [kind |-> "pace", dur |-> 3 + (i - 1), attempt |-> i - 1,
                         calls |-> i - 1]
                  /\ Len(before) = IF i = 1 THEN 1 ELSE 2
        /\ \A i \in 1..Len(call_log) :
              (ThrottlingText(call_log[i]) /\ i - 1 < max_retries
                 /\ (SleepsAfter(i) # <<>> \/ Len(call_log) > i \/ RetryDone)) =>
                  SleepsAfter(i)[1] =
                      [kind |-> "backoff", dur |-> 6 * (2 ^ (i - 1)), attempt |-> i - 1,
                       calls |-> i]
        /\ (rw_pc = "raised" /\ AllThrottled) =>
              SumSeq([k \in 1..Len(sleep_log) |-> sleep_log[k].dur])
                 = PacingSum(max_retries) + GeometricSum(6, max_retries)

\* The invocation with max_retries = 3 whose four attempts were throttled:
\* it slept 9 s of pacing and 21 s of backoff.
C27_Witness ==
    /\ wrapper = "bedrock_api_call_with_retry"
    /\ rw_pc = "raised"
    /\ AllThrottled
    /\ max_retries = 3
    /\ Len(call_log) = 4
    /\ SumSeq([k \in 1..Len(sleep_log) |-> sleep_log[k].dur]) = 60
    /\ [k \in 1..Len(sleep_log) |-> sleep_log[k].dur] = <<3, 6, 4, 12, 5, 24, 6>>

(***************************************************************************)
(* Claims about the plan of a cycle (checked under SpecAgent).             *)
(***************************************************************************)
\* C28: when PLAN completes, the actor's current_plan is the plan PLAN
\* returned and EXECUTE runs, both when the plan was built from the model's
\* answer and when the fallback plan was used; so current_plan is never a
\* plan of an earlier cycle once a later PLAN has completed.
C28_CurrentPlanIsThePlan ==
    [][\A a \in Actors :
          (agent_pc[a] = "plan" /\ agent_pc'[a] = "execute") =>
              current_plan'[a] = local'[a].plan]_vars

\* The same, for the plans built from an answer of the model.
C28_CurrentPlanWhenBuilt ==
    [][\A a \in Actors :
          (/\ agent_pc[a] = "plan" /\ agent_pc'[a] = "execute"
           /\ local'[a].plan # FallbackPlan(a)) =>
              current_plan'[a] = local'[a].plan]_vars

\* The planning call of the cycle failed (when failed is counted), or it
\* answered one of the given texts.
PlanCallGave(a, failed, texts) ==
    \E c \in CallsOf(a) :
        /\ c.kind = "plan"
        /\ \/ failed /\ c.outcome.raised
           \/ ~c.outcome.raised /\ c.outcome.text \in texts

\* The plan of the cycle has exactly one step, and once EXECUTE has returned
\* there is exactly one StepResult.
OneStepOneResult(a) ==
    /\ local[a].plan.steps.t = "arr"
    /\ Len(local[a].plan.steps.kids) = 1
    /\ agent_pc[a] \in {"reflect", "adapt_behavior"} =>
           Len(local[a].execution_result.step_results) = 1

\* C29: whenever PLAN cannot use the model's answer (the call fails, or the
\* text cannot be recovered as a plan), the plan that is executed has exactly
\* one trivial step and EXECUTE produces exactly one StepResult.
C29_UnusablePlanOneStep ==
    \A a \in Actors :
        (/\ agent_pc[a] \in {"execute", "should_adapt", "reflect", "adapt_behavior"}
         /\ PlanCallGave(a, TRUE, {MODEL_TEXT.PROSE, MODEL_TEXT.EMPTY,
                                   MODEL_TEXT.JSON_LIST}))
            => OneStepOneResult(a)

\* The same, for the call that fails and the answer that is not a mapping.
C29_FailedPlanOneStep ==
    \A a \in Actors :
        (/\ agent_pc[a] \in {"execute", "should_adapt", "reflect", "adapt_behavior"}
         /\ PlanCallGave(a, TRUE, {MODEL_TEXT.JSON_LIST}))
            => OneStepOneResult(a)

(***************************************************************************)
(* Claims about the adapt decision of EXECUTE (checked under SpecAgent).   *)
(***************************************************************************)
\* The adapt decisions the cycle has asked for, and the StepResults below
\* 0.5 it has produced.
AdaptCalls(a) == SelectSeq(local[a].calls, LAMBDA c : c.kind = "adapt")
LowResults(a) == SelectSeq(local[a].execution_results, LAMBDA r : r.success < 500)

\* C30: in EXECUTE the adapt decision is asked for only after a StepResult
\* with success < 0.5 and at most once for that step; the adaptation counter
\* rises by exactly 1 for each step whose decision is to adapt and is
\* unchanged otherwise, so the execution of a plan of n steps raises it by
\* at most n.
C30_AdaptOncePerLowStep ==
    /\ [](\A a \in Actors :
             agent_pc[a] \in {"execute", "should_adapt", "reflect"} =>
                /\ Len(AdaptCalls(a)) =
                      Len(LowResults(a)) - (IF agent_pc[a] = "should_adapt" THEN 1 ELSE 0)
                /\ agent_pc[a] = "should_adapt" =>
                      local[a].execution_results[Len(local[a].execution_results)].success < 500
                /\ Len(local[a].execution_results) <= Len(local[a].plan.steps.kids))
    /\ [][\A a \in Actors :
             LET asked == Len(AdaptCalls(a)') = Len(AdaptCalls(a)) + 1
                 o == local'[a].calls[Len(local'[a].calls)].outcome
                 low == local[a].execution_results[Len(local[a].execution_results)].success
                 adapts == IF o.raised \/ o.text = MODEL_TEXT.JSON_LIST
                           THEN low < 300
                           ELSE o.text = MODEL_TEXT.ADAPT_YES
             IN  /\ (agent_pc[a] = "should_adapt" /\ agent_pc'[a] = "execute") =>
                       /\ asked
                       /\ adaptation_count'[a] =
                             adaptation_count[a] + (IF adapts THEN 1 ELSE 0)
                 /\ (agent_pc[a] \in {"execute", "should_adapt"}
                       /\ adaptation_count'[a] # adaptation_count[a]) =>
                       /\ agent_pc[a] = "should_adapt" /\ asked
                       /\ adaptation_count'[a] = adaptation_count[a] + 1]_vars

\* A first cycle executed a plan of two steps, both below 0.5, asked one
\* decision for each and adapted twice.
C30_Witness ==
    \E a \in Actors :
        /\ agent_pc[a] = "reflect"
        /\ cycles[a] = 1
        /\ Len(local[a].execution_results) = 2
        /\ Len(LowResults(a)) = 2
        /\ Len(AdaptCalls(a)) = 2
        /\ adaptation_count[a] = 2

(***************************************************************************)
(* Claims about the prompt of the analysis (checked under SpecPrompt).     *)
(***************************************************************************)
ByteWords == {"0x41", "0x42"}

IsBytes(v) == v.t = "bytes"

\* d and e differ at most in the content of the bytes under 'document_bytes',
\* whose length is the same.
SameButPayload(d, e) ==
    /\ Len(d) = Len(e)
    /\ \A i \in DOMAIN d :
          /\ d[i].k = e[i].k
          /\ \/ d[i].v = e[i].v
             \/ /\ d[i].k = "document_bytes"
                /\ IsBytes(d[i].v) /\ IsBytes(e[i].v)
                /\ Len(d[i].v.s) = Len(e[i].v.s)

HasRun(s, run) ==
    \E i \in 0..(Len(s) - Len(run)) : SubSeq(s, i + 1, i + Len(run)) = run

\* The descriptor the prompt holds for a 'document_bytes' of value v.
SizeDescriptor(v) ==
    <<"\"", "has_document", "\"", ":", " ", "true", ",", " ",
      "\"", "size_bytes", "\"", ":", " ", ToString(IF IsBytes(v) THEN Len(v.s) ELSE 0)>>

\* C25: the prompt of the analysis does not depend on the content of the
\* binary payload.  Two calls whose inputs differ only in the bytes of
\* 'document_bytes', of the same length, send the same text; no byte of any
\* bytes value of the input, at the top or in a list, is in the text; and
\* for an input with 'document_bytes' the text holds the descriptor of
\* presence and size.
C25_PromptBlindToPayload ==
    /\ (/\ \A r \in DOMAIN prompt_pc : prompt_pc[r] = "sent"
        /\ DOMAIN prompt_pc # {}
        /\ SameButPayload(input_data[1], input_data[2]))
          => analysis_prompt[1] = analysis_prompt[2]
    /\ \A r \in DOMAIN prompt_pc :
          prompt_pc[r] = "sent" =>
              /\ \A i \in DOMAIN analysis_prompt[r] :
                    analysis_prompt[r][i] \notin ByteWords
              /\ \A i \in DOMAIN input_data[r] :
                    input_data[r][i].k = "document_bytes" =>
                        HasRun(analysis_prompt[r], SizeDescriptor(input_data[r][i].v))

C25_Witness ==
    /\ DOMAIN prompt_pc # {}
    /\ \A r \in DOMAIN prompt_pc : prompt_pc[r] = "sent"
    /\ input_data[1] # input_data[2]
    /\ SameButPayload(input_data[1], input_data[2])
    /\ \E i \in DOMAIN input_data[1] :
          input_data[1][i].k = "signature" /\ IsBytes(input_data[1][i].v)
    /\ \E i \in DOMAIN input_data[1] : input_data[1][i].k = "attachments"
    /\ analysis_prompt[1] = analysis_prompt[2]
    /\ Contains(analysis_prompt[1], "size_bytes")
    /\ ~Contains(analysis_prompt[1], "signature")

(***************************************************************************)
(* Claims about the execution of a plan (checked under SpecAgent).         *)
(***************************************************************************)
\* C31: when EXECUTE decides to adapt, the plan in flight is replaced by an
\* adapted plan of the same shape whose plan_id differs from the plan_id of
\* the plan it replaces, and the plan_executed of the execution's result is
\* the adapted plan.
C31_AdaptedPlanHasNewId ==
    [][\A a \in Actors :
          /\ (agent_pc[a] = "should_adapt"
                /\ adaptation_count'[a] = adaptation_count[a] + 1) =>
                 /\ local'[a].plan.plan_id # local[a].plan.plan_id
                 /\ local'[a].plan.steps.t = local[a].plan.steps.t
          /\ (agent_pc[a] = "execute" /\ agent_pc'[a] = "reflect") =>
                 local'[a].execution_result.plan_executed = local[a].plan]_vars

\* The same without the new plan_id: the plan in flight after an adaptation
\* has the shape of the plan before it, and plan_executed is the plan in
\* flight when the loop ends.
C31_ExecutedPlanIsPlanInFlight ==
    [][\A a \in Actors :
          /\ (agent_pc[a] = "should_adapt"
                /\ adaptation_count'[a] = adaptation_count[a] + 1) =>
                 local'[a].plan.steps.t = local[a].plan.steps.t
          /\ (agent_pc[a] = "execute" /\ agent_pc'[a] = "reflect") =>
                 local'[a].execution_result.plan_executed = local[a].plan]_vars

(***************************************************************************)
(* Claims about _adapt_behavior (checked under SpecAgent).                  *)
(***************************************************************************)
\* The success scores of the last three records of a's memory.
LastScores(a) ==
    [i \in 1..3 |-> memory_bank[a][Len(memory_bank[a]) - 3 + i].success_score]

HasConfidence(g) == "confidence" \in DOMAIN g.success_criteria

\* What a completed _adapt_behavior did to the confidences of a's goals:
\* each one of at most 0.95 rose by 0.05 up to 0.95 (raised), or none
\* changed (kept).
ConfidencesRaised(a) ==
    \A i \in DOMAIN goals[a] :
        (HasConfidence(goals[a][i]) /\ goals[a][i].success_criteria.confidence <= 95) =>
            goals'[a][i].success_criteria.confidence =
                Min(goals[a][i].success_criteria.confidence + 5, 95)

ConfidencesKept(a) ==
    \A i \in DOMAIN goals[a] :
        HasConfidence(goals[a][i]) =>
            goals'[a][i].success_criteria.confidence =
                goals[a][i].success_criteria.confidence

\* C33: in ADAPT_BEHAVIOR, whenever the actor has at least 3 memory records
\* and the mean success_score of the last 3 exceeds 0.8, every numeric
\* 'confidence' criterion c of at most 0.95 becomes min(c + 0.05, 0.95); when
\* the mean is 0.8 or less no confidence criterion changes.
C33_TightenWithThreeRecords ==
    [][\A a \in Actors :
          (agent_pc[a] = "adapt_behavior" /\ agent_pc'[a] = "returned"
             /\ Len(memory_bank[a]) >= 3) =>
              IF SumSeq(LastScores(a)) > 3 * 800
              THEN ConfidencesRaised(a)
              ELSE ConfidencesKept(a)]_vars

\* The same for an actor with more than 3 memory records and a mean that is
\* not exactly 0.8; with fewer than 4 records no confidence changes.
C33_TightenWithFourRecords ==
    [][\A a \in Actors :
          (agent_pc[a] = "adapt_behavior" /\ agent_pc'[a] = "returned") =>
              IF Len(memory_bank[a]) <= 3 THEN ConfidencesKept(a)
              ELSE IF SumSeq(LastScores(a)) > 3 * 800 THEN ConfidencesRaised(a)
              ELSE IF SumSeq(LastScores(a)) < 3 * 800 THEN ConfidencesKept(a)
              ELSE TRUE]_vars

\* The goal adjustments of the learning insight a's _adapt_behavior reads;
\* they are strings whenever _adapt_behavior completes.
Adjustments(a) ==
    Iterate(PyGet(local[a].learning_insight, "future_goal_adjustments",
                  ArrVal(<<>>)).val).val

\* Some adjustment asks for a higher priority.
MentionsEscalation(a) ==
    \E i \in DOMAIN Adjustments(a) :
        Mentions(Adjustments(a)[i], "priority") /\ Mentions(Adjustments(a)[i], "high")

PrioritiesKept(a, gs) ==
    \A i \in gs : goals'[a][i].priority = goals[a][i].priority

\* C34: in ADAPT_BEHAVIOR, when the learning insight holds a goal adjustment
\* that mentions priority escalation, every goal of the actor has its
\* priority raised by 1 in that cycle, capped at 10; when no adjustment
\* mentions priority, no priority changes.
C34_EveryGoalEscalated ==
    [][\A a \in Actors :
          (agent_pc[a] = "adapt_behavior" /\ agent_pc'[a] = "returned") =>
              /\ MentionsEscalation(a) =>
                    \A i \in DOMAIN goals[a] :
                        goals'[a][i].priority = Min(goals[a][i].priority + 1, 10)
              /\ (\A i \in DOMAIN Adjustments(a) :
                      ~Mentions(Adjustments(a)[i], "priority")) =>
                    PrioritiesKept(a, DOMAIN goals[a])]_vars

\* The same for the goals whose goal_type is 'primary' and an insight with
\* one adjustment; the priority of every other goal is left as it is.
C34_PrimaryGoalsEscalated ==
    [][\A a \in Actors :
          (agent_pc[a] = "adapt_behavior" /\ agent_pc'[a] = "returned") =>
              /\ (MentionsEscalation(a) /\ Len(Adjustments(a)) = 1) =>
                    \A i \in DOMAIN goals[a] :
                        goals[a][i].goal_type = "primary" =>
                            goals'[a][i].priority = Min(goals[a][i].priority + 1, 10)
              /\ PrioritiesKept(a, {i \in DOMAIN goals[a] :
                                       goals[a][i].goal_type # "primary"})
              /\ ~MentionsEscalation(a) => PrioritiesKept(a, DOMAIN goals[a])]_vars

(***************************************************************************)
(* Claims about the fallback of safe_json_parse (checked under SpecParse). *)
(***************************************************************************)
\* The strict parse of the text from the first '{' to the last '}' of s,
\* repaired, fails or there is no such text.
ExtractionFails(s) ==
    LET first == FindFirst(s, {"{"}, 1)
        last == FindLast(s, {"}"}, Len(s))
    IN  \/ first = 0
        \/ last = 0
        \/ ~json_loads(clean_json_string(SubSeq(s, first, last))).ok

AllAttemptsFail(s) ==
    /\ ~json_loads(s).ok
    /\ ~json_loads(clean_json_string(s)).ok
    /\ ExtractionFails(s)

VerdictIn(final_decision, statuses) ==
    /\ final_decision.t = "obj"
    /\ \E m \in final_decision.members :
          m.k = <<"final_status">> /\ m.v \in {StrVal(<<w>>) : w \in statuses}

\* C36: in every result autonomous_coordination returns, the final_status of
\* final_decision is one of "approved", "rejected", "manual_review", whatever
\* the model answered to the synthesis request.
C36_VerdictEnumerated ==
    coord_pc = "returned" =>
        VerdictIn(coordination_result.final_decision,
                  {"approved", "rejected", "manual_review"})

\* The same when the synthesis call failed or its answer was a well-formed
\* or a truncated synthesis.
C36_VerdictWhenRecovered ==
    (/\ coord_pc = "returned"
     /\ \/ coord_local.synthesis_response.raised
        \/ coord_local.synthesis_response.text \in
               {MODEL_TEXT.SYNTHESIS_APPROVED, MODEL_TEXT.SYNTHESIS_TRUNCATED}) =>
        VerdictIn(coordination_result.final_decision,
                  {"approved", "rejected", "manual_review"})

\* The strategy the result reports is the processing_type of its
\* agent_results.
ReportsExecutedMode ==
    /\ coordination_result.coordination_strategy.t = "obj"
    /\ \E m \in coordination_result.coordination_strategy.members :
          /\ m.k = <<"strategy">>
          /\ m.v = StrVal(<<coordination_result.agent_results.processing_type>>)

\* C37: in every result autonomous_coordination returns, the strategy of
\* coordination_strategy equals the processing_type of agent_results: the
\* mode reported is the mode that was executed, also when the model names a
\* strategy other than the three supported ones.
C37_ReportedModeIsExecuted ==
    coord_pc = "returned" => ReportsExecutedMode

\* The same when the strategy reported is one of the three supported ones.
C37_ReportedModeWhenSupported ==
    (/\ coord_pc = "returned"
     /\ \E m \in coordination_result.coordination_strategy.members :
           /\ m.k = <<"strategy">>
           /\ m.v \in {StrVal(<<"sequential">>), StrVal(<<"parallel">>),
                       StrVal(<<"negotiated">>)}) =>
        ReportsExecutedMode

(***************************************************************************)
(* Claims about the counters of an actor (SpecAgent, SpecCoord).           *)
(***************************************************************************)
\* The adaptations EXECUTE performed in a's cycle: the decisions, each asked
\* after a result below 0.5, that said to adapt.
AdaptationsPerformed(a) ==
    Cardinality({ i \in DOMAIN AdaptCalls(a) :
        Truthy(PyItem(should_adapt_plan(AdaptCalls(a)[i].outcome,
                                        LowResults(a)[i].success),
                      "should_adapt").val) })

Executed(a) == agent_pc[a] \in {"reflect", "adapt_behavior", "returned"}

\* C38: in every execution result adaptations_made is the number of plan
\* adaptations performed during that execution, and so is at most the number
\* of its step_results, in the second and later cycles of an actor as in the
\* first.
C38_AdaptationsOfThisExecution ==
    \A a \in Actors :
        Executed(a) =>
            /\ local[a].execution_result.adaptations_made = AdaptationsPerformed(a)
            /\ local[a].execution_result.adaptations_made <=
                   Len(local[a].execution_result.step_results)

\* The same for the first cycle of an actor, and for every cycle the total:
\* adaptations_made is adaptation_count, the adaptations of all cycles.
C38_AdaptationsOfFirstExecution ==
    \A a \in Actors :
        Executed(a) =>
            /\ local[a].execution_result.adaptations_made = adaptation_count[a]
            /\ cycles[a] = 1 =>
                  /\ local[a].execution_result.adaptations_made = AdaptationsPerformed(a)
                  /\ local[a].execution_result.adaptations_made <=
                         Len(local[a].execution_result.step_results)

(***************************************************************************)
(* Claims about the order of the steps (checked under SpecAgent).          *)
(***************************************************************************)
StepsOf(a) == Iterate(local[a].plan.steps).val

\* results holds the results of the first Len(results) steps of a's plan, in
\* the order of the plan.
InPlanOrder(a, results) ==
    /\ Len(results) <= Len(StepsOf(a))
    /\ \A j \in DOMAIN results : results[j].step = StepsOf(a)[j]

\* x is the mean of the success of results, in thousandths, or 0 when there
\* are none.
IsMean(x, results) ==
    LET sum == SumSeq([i \in DOMAIN results |-> results[i].success])
    IN  IF results = <<>> THEN x = 0
        ELSE Len(results) * x <= sum /\ sum < Len(results) * (x + 1)

\* C32: EXECUTE runs the steps of the plan one at a time in the order of the
\* plan.  The handler of step i is called with exactly the results of the
\* steps before i; step i+1 is not started before the result of step i is
\* there and the decision asked for it, if any, is taken; and the result of
\* the execution holds one result for each step executed, in that order,
\* with overall_success the mean of their success, or 0 when there is none.
C32_StepsInPlanOrder ==
    /\ [](\A a \in Actors :
             /\ (agent_pc[a] \in {"execute", "should_adapt"}
                   /\ Iterate(local[a].plan.steps).ok) =>
                    /\ InPlanOrder(a, local[a].execution_results)
                    /\ agent_pc[a] = "execute" =>
                           Len(local[a].execution_results) = local[a].step_no - 1
                    /\ agent_pc[a] = "should_adapt" =>
                           Len(local[a].execution_results) = local[a].step_no
             /\ Executed(a) =>
                    LET result == local[a].execution_result
                    IN  /\ Len(result.step_results) = Len(StepsOf(a))
                        /\ InPlanOrder(a, result.step_results)
                        /\ IsMean(result.overall_success, result.step_results))
    /\ [][\A a \in Actors :
             (agent_pc[a] \in {"execute", "should_adapt"}
                /\ local'[a].execution_results # local[a].execution_results) =>
                 /\ agent_pc[a] = "execute"
                 /\ \E r \in {local'[a].execution_results[Len(local[a].execution_results) + 1]} :
                       /\ local'[a].execution_results =
                              Append(local[a].execution_results, r)
                       /\ r.step = StepsOf(a)[local[a].step_no]]_vars

\* An execution of two steps that scored 0.9 and 0.4 reports both, in the
\* order of the plan, and their mean.
C32_Witness ==
    \E a \in Actors :
        /\ Executed(a)
        /\ Len(local[a].execution_result.step_results) = 2
        /\ local[a].execution_result.step_results[1].success = 900
        /\ local[a].execution_result.step_results[2].success = 400
        /\ local[a].execution_result.overall_success = 650
        /\ Len(AdaptCalls(a)) = 1

Coordinating == coord_pc \notin {"idle", "returned", "raised"}

\* C40: every remote call returning or failing, every call of
\* autonomous_coordination completes, in every mode: a model request makes
\* at most 4 attempts (max_retries = 3), EXECUTE never executes a step again
\* and never loops on an adaptation, and in parallel mode the fan-in
\* completes once the cycles of both actors have completed.
C40_CoordinationCompletes ==
    /\ [](Len(call_log) <= 4 /\ attempt <= 3)
    /\ [][\A a \in Actors :
             /\ (agent_pc[a] = "execute" /\ agent_pc'[a] \in {"execute", "should_adapt"}
                   /\ local'[a] # local[a]) =>
                    /\ Len(local'[a].execution_results) =
                           Len(local[a].execution_results) + 1
                    /\ Len(local'[a].execution_results) <= Len(StepsOf(a))
                    /\ local'[a].step_no >= local[a].step_no
             /\ (agent_pc[a] = "should_adapt" /\ agent_pc'[a] # "should_adapt") =>
                    \/ agent_pc'[a] \in {"raised", "cancelled"}
                    \/ /\ agent_pc'[a] = "execute"
                       /\ local'[a].step_no = local[a].step_no + 1
                       /\ local'[a].plan.steps = local[a].plan.steps]_vars
    /\ [][(coord_pc = "parallel" /\ \A a \in AGENTS : agent_pc[a] = "returned") =>
             (coord_pc' = "synthesis" /\ applications' = applications)]_vars
    /\ Coordinating ~> (coord_pc \in {"returned", "raised"})

\* A coordination in parallel mode returned after a synthesis request that
\* was throttled three times and answered at its fourth attempt.
C40_Witness ==
    /\ coord_pc = "returned"
    /\ coordination_result.agent_results.processing_type = "parallel"
    /\ Len(call_log) = 4
    /\ rw_result.kind = "returned"
    /\ \A a \in AGENTS : Len(local[a].execution_result.step_results) = 2
====
